---- MODULE Spec2Model ----
(***************************************************************************)
(* Message-dispatch and orchestration pipeline of AIOX:                    *)
(*   orchestrator  (internal/orchestrator)  inbound -> task + outbound     *)
(*   dispatcher    (internal/worker/dispatcher.go)  consume loop, result   *)
(*                 loop and timeout reaper sharing the pending map         *)
(*   worker pool   (internal/worker, Pool / ConnectedWorker / Server)      *)
(* The three dispatcher loops are goroutines; each handler is cut at the   *)
(* boundaries of its critical sections, so that the interleavings of the   *)
(* loops are those of the code.                                            *)
(***************************************************************************)
EXTENDS Integers, Sequences, FiniteSets, Bags, TLC

\* ---------------------------------------------------------------- bounds
MaxRedeliver == 1     \* redeliveries of already handled task messages
ResultChCap == 2      \* capacity of the result channel in the model

\* ------------------------------------------------------ program constants
TaskTimeout == 1              \* Dispatcher.taskTimeout, in clock units
DefaultMaxConcurrent == 4     \* max_concurrent <= 0 defaults to 4

Requests == {"m1", "m2"}      \* inbound message ids (= request ids)
WorkerIds == {"w1"}           \* worker_id values that register
RegMaxConcurrent == {1, 2}    \* max_concurrent values a RegisterWorker carries
SelectIds == {"w1", "w2", "w3"}          \* worker ids of a pool taken alone
SelectMaxConcurrent == {-1, 0, 1, 2, 3}  \* MaxConcurrent values in such a pool
MaxSelectActive == 3                     \* ActiveTasks values: 0..MaxSelectActive
\* the agent's record: usable, governance blocked, soft-deleted, with an
\* llm_config provider ("p1") outside governance.allowed_providers, or with
\* goroutines that call Service.CheckQuota for the owner
Callers == {"c1", "c2"}
\* GovernanceCfg: MaxTokensPerMinute (the limit CheckQuota hands to the rate
\* limiter), MaxTokensPerDay, MaxRequestsPerDay
MaxPerMinute == 2
MaxTokensPerDay == 3
MaxRequestsPerDay == 2
\* the rate limiter's windowDuration (60 s) and keyTTL (90 s) in units of 30 s
WindowDuration == 2
KeyTTL == 3
\* the clock runs up to MaxClock units and is read at most MaxChecks times
MaxClock == 3
MaxChecks == 3
\* a JID whose domain is outside governance.allowed_domains
AgentStates == {"ok", "blocked", "deleted", "provider", "domain"}

VARIABLES
    agent,      \* state of the addressed agent's record in the registry
    busUp,      \* whether the bus accepts publishes
    orch,       \* per inbound message: queued, or the orchestrator's outcome
    tasks,      \* per request: the task message on the tasks stream
    redeliv,    \* redeliveries of handled task messages so far
    pool,       \* Pool.workers: worker_id -> ConnectedWorker
    atWorker,   \* TaskRequests received by a worker and not answered
    resultCh,   \* Server.resultCh
    pending,    \* Dispatcher.pending: request_id -> pendingTask
    cpc,        \* consume loop: position in handleTask
    rpc,        \* result loop: position in handleResult
    epc,        \* reaper: position in expireStale
    outbound,   \* messages published on aiox.messages.outbound (a bag)
    executions, \* rows of table executions (a bag)
    audits,     \* events published on aiox.events.audit (a bag)
    quota,      \* the owner's user_quotas row
    memory,     \* short-term turns and long-term rows written
    sends,      \* per request: TaskRequests sent to workers (history)
    ins,        \* per request: entries inserted into pending (history)
    term,       \* per request, per inserted entry: terminal handlings (history)
    streams,    \* per worker_id: the TaskStream handler of its accepted stream
    acks,       \* per worker_id: the RegisterAck last sent to a stream of that id
    workerRows, \* table ai_workers: status of the row of each worker_id
    published,  \* tasks published on aiox.tasks.<agent_id> (a bag)
    clock,      \* time.Now() of the quota engine, in units of 30 s
    window,     \* Redis sorted set quota:minute:<owner>: member -> score
    windowTTL,  \* the time at which Redis expires that key
    checks,     \* per caller: position in Service.CheckQuota
    grants,     \* the CheckAndIncrement calls that returned allowed (history)
    ltm,        \* rows of table agent_memories
    search,     \* the last SearchSimilar call and the rows it returned
    rings,      \* Redis lists of the short-term store: key -> list
    appended,   \* per (agent, user): the entries appended to its ring (history)
    stmOp,      \* the last operation on the short-term store
    shortTermMax, \* MemoryConfig.MaxShortTermMsgs of the agents
    turn,       \* position in Service.StoreConversationTurn
    observed,   \* the entries the last dispatch-time memory read returned
    cancelled,  \* whether the process-wide context is cancelled
    loops,      \* per long-lived loop: its position
    shutdown,   \* main: position in the ordered shutdown
    closed,     \* the clients main has closed, in closing order
    inbox,      \* the messages stream.Recv returned on a worker stream (history)
    placed,     \* the TaskResponses its receive loop put on the channel (history)
    taskMeta,   \* per request: AgentID and OwnerUserID of its task message and
                \* the memory policy of that agent
    agentRow,   \* the agent's row: stored profile, LLM config, governance
    requests,   \* the TaskRequests sent to workers (history)
    delivered,  \* per request: deliveries of its task message handled (history)
    day         \* last_daily_reset of the owner's row against now, and the
                \* counters a reset before every call would give

vars == <<agent, busUp, orch, tasks, redeliv, pool, atWorker, resultCh,
          pending, cpc, rpc, epc, outbound, executions, audits, quota, memory,
          sends, ins, term, streams, acks, workerRows, published,
          clock, window, windowTTL, checks, grants,
          ltm, search, rings, appended, stmOp, shortTermMax,
          turn, observed, cancelled, loops, shutdown, closed,
          inbox, placed, taskMeta, agentRow, requests, delivered, day>>

\* the state of the gRPC server's streams and of its durable worker records
streamVars == <<streams, acks, workerRows>>

\* the state of the quota engine's rate limiter and of its callers
limiterVars == <<clock, window, windowTTL, checks, grants>>

\* the state of the memory stores
memVars == <<ltm, search, rings, appended, stmOp, shortTermMax>>

\* the writer and the reader of a conversation turn
turnVars == <<turn, observed>>

\* the process: its context, its loops, its shutdown
lifeVars == <<cancelled, loops, shutdown, closed>>

\* the receive loop of a worker stream
readVars == <<inbox, placed>>

\* the agent lookup of handleTask and what it leads to
gateVars == <<agentRow, requests, delivered>>

\* the state beside the pipeline, the quota engine and the memory stores
\* other than turns and process life
restVars == <<readVars, gateVars, taskMeta, day>>

\* turns, process life and the rest
sideVars == <<turnVars, lifeVars, restVars>>

\* the stores and the process state beside the message pipeline
storeVars == <<limiterVars, memVars, sideVars>>

\* ---------------------------------------------------------------- values
NoWorker == [on |-> FALSE, max |-> 0, active |-> 0]
\* live is a ghost field: whether the connection (the *ConnectedWorker) the
\* task was sent on is still the pool's entry for its worker_id
NoTask == [k |-> 0, w |-> "", live |-> FALSE, age |-> 0]
CIdle == [st |-> "idle", r |-> "", w |-> "", live |-> FALSE, nocap |-> FALSE]
RIdle == [st |-> "idle", r |-> "", k |-> 0, w |-> "", live |-> FALSE, rw |-> "", err |-> FALSE]
EIdle == [st |-> "idle", exp |-> {}]
\* no CheckQuota call in progress for a caller; rate, db and res are the
\* outcomes of CheckAndIncrement, of GetOrCreate and of the whole last call
NoCheck ==
    [pc |-> "idle", now |-> 0, nano |-> 0, count |-> 0, rate |-> "", db |-> "", res |-> ""]
\* agent ids of the short-term store (uuid.String(): strings of one fixed
\* length without a colon) and user addresses, as sequences of characters
RingAgents == {<<"a", "1">>, <<"a", "2">>}
RingUsers == {<<"u">>, <<"u", ":", "u">>}
RingPairs == RingAgents \X RingUsers

\* a key that leaves out the user address: a faulty variant
convKeyAgentOnly(agentID, userJID) == <<"c", "o", "n", "v", ":">> \o agentID

\* convKey: fmt.Sprintf("conv:%s:%s", agentID.String(), userJID)
convKey(agentID, userJID) ==
    <<"c", "o", "n", "v", ":">> \o agentID \o <<":">> \o userJID

\* the keys of the short-term store
RingKeys == {convKey(p[1], p[2]) : p \in RingPairs}

\* DefaultConfig().MaxShortTermMsgs
DefaultMaxShortTermMsgs == 20

\* no StoreConversationTurn call in progress; stored is the set of requests
\* whose call has been made
NoTurn == [pc |-> "idle", r |-> "", stored |-> {}]

\* the long-lived loops main starts: Orchestrator.Start, the three loops of
\* Dispatcher.Start, OutboundRelay.Start and the audit Consumer.Start
Loops == {"orchestrator", "consume", "results", "reaper", "relay", "audit"}
DispatcherLoops == {"consume", "results", "reaper"}
\* the loops built around consumer.Fetch, and the ones built around a select
FetchLoops == {"orchestrator", "consume", "relay", "audit"}
SelectLoops == {"results", "reaper"}
\* the loops and Dispatcher.Start, which waits for its three
Starts == Loops \cup {"dispatcher"}

\* last_daily_reset is within 24 h, nothing deducted since
NoDay == [stale |-> FALSE, ideal |-> [stale |-> FALSE, tokens |-> 0, requests |-> 0]]

\* no similarity search made, no short-term operation made
NoSearch == [agent |-> "", owner |-> "", rows |-> {}]
NoOp == [op |-> "", agent |-> <<>>, user |-> <<>>]

\* no TaskResponse in the hand of a stream's receive loop
NoResp == [r |-> "", w |-> "", err |-> FALSE]
\* a worker_id without an accepted stream
NoStream == [up |-> FALSE, hand |-> NoResp]

\* InboundMessage.FromJID of message m (the ingress gateway sets it)
FromJid(m) == IF m = "m1" THEN "u1@d" ELSE "u2@d"
\* InboundMessage.ToJID
ToJid(m) == "agent-a1@agents.d"
\* RouteResult.AgentJID / AgentName of the resolved agent
AgentJid == "agent-a1@agents.d"
AgentName == "a1"
\* the agent's row: id and owner_user_id ("" stands for uuid.Nil)
AgentId == "a1"
OwnerUserId == "o1"

\* xmpp.ExtractAgentID: the uuid in the local part agent-<uuid> of a JID
ExtractAgentID(jid) == IF jid = "agent-a1@agents.d" THEN "a1" ELSE ""

\* the RouteResult Router.Route builds from the agent's row
RouteResult(toJid) ==
    [AgentID |-> IF ExtractAgentID(toJid) = AgentId THEN AgentId ELSE "",
     OwnerUserID |-> IF ExtractAgentID(toJid) = AgentId THEN OwnerUserId ELSE "",
     AgentName |-> AgentName, AgentJID |-> AgentJid]

\* TaskResponse payloads a worker produces
RespText == "reply"
RespError == "boom"
RespTokens == 3
RespNewMemories == 1

\* agent.MemoryConfig as parsed at dispatch time
MemoryConfig == [Enabled |-> TRUE, ShortTermEnabled |-> TRUE, LongTermEnabled |-> TRUE]

\* what a pending entry takes from the task message and from the agent's
\* memory_config, for a message to agent a1 of owner o1
DefaultMeta ==
    [AgentID |-> AgentId, OwnerUserID |-> OwnerUserId, MemoryConfig |-> MemoryConfig]

\* a stored string of profile.system_prompt: what it is (of: "" empty,
\* "plain" text, "cipher" the output of Encrypt under the current key,
\* "foreign" hex that Decrypt rejects), its first character, and whether it
\* has 30 characters or more
PlainPrompt == [of |-> "plain", first |-> "Y", long |-> TRUE]

\* an agent row with a plain-text prompt and no allowed_providers list
DefaultAgentRow ==
    [Profile |-> [Encrypted |-> FALSE, SystemPrompt |-> PlainPrompt],
     LLMConfig |-> [kind |-> "object", provider |-> "p1"],
     AllowedProviders |-> <<>>]

\* inats.TaskMessage built by Orchestrator.processMessage
TaskMessage(m) ==
    [RequestID |-> m,
     AgentID |-> RouteResult(ToJid(m)).AgentID,
     OwnerUserID |-> RouteResult(ToJid(m)).OwnerUserID,
     Message |-> m, FromJID |-> FromJid(m),
     AgentJID |-> "", AgentName |-> ""]

OutboundMessage(to, from, body, re) ==
    [ToJID |-> to, FromJID |-> from, Body |-> body, InReplyTo |-> re]

\* Publisher.publish on the outbound subject: the message reaches the subject
\* only if the bus accepts it; the callers log the error and go on
PublishOutboundMessage(out, msg) ==
    IF busUp THEN out (+) SetToBag({msg}) ELSE out

\* a task subject without the agent id: a faulty variant
TaskSubjectPrefixOnly(agentID) == <<"aiox.tasks">>

\* fmt.Sprintf("%s.%s", SubjectTaskPrefix, agentID)
TaskSubject(agentID) == <<"aiox.tasks", ".", agentID>>

\* Publisher.PublishTask
PublishTask(pub, agentID, msg) ==
    IF busUp
    THEN pub (+) SetToBag({[Subject |-> TaskSubject(agentID), Msg |-> msg]})
    ELSE pub

PublishAuditEvent(aud, ev) ==
    IF busUp THEN aud (+) SetToBag({ev}) ELSE aud

\* Orchestrator.sendErrorResponse
OrchErrorResponse(m, errMsg) ==
    OutboundMessage(FromJid(m), ToJid(m), <<"Error: ", errMsg>>, m)

\* Dispatcher.sendErrorResponse
DispErrorResponse(task, errMsg) ==
    OutboundMessage(task.FromJID, task.AgentJID, <<"Error: ", errMsg>>, task.RequestID)

\* ------------------------------------------------------------ worker pool
Connected(p, w) == p[w].on

\* HasCapacity with the boundary included (load <= 1.0): a faulty variant
HasCapacityInclusive(cw) == cw.max > 0 /\ cw.active <= cw.max

\* ConnectedWorker.LoadFraction < 1.0, as a comparison of integers
HasCapacity(cw) == cw.max > 0 /\ cw.active < cw.max

\* a comparison of active_tasks instead of load ratios: a faulty variant
LoadLessByActive(a, b) == a.active < b.active

\* load(a) < load(b) for workers with max > 0, as a comparison of integers
\* (the float64 quotients compare the same way while a.max * b.max < 2^52)
LoadLess(a, b) == a.active * b.max < b.active * a.max

\* SelectWorker without the skip of fully loaded workers: a faulty variant
SelectWorkerAnyConnected(p) == {w \in DOMAIN p : p[w].on}

\* the orders in which a range over the map Pool.workers can visit its
\* entries: Go leaves the order unspecified
MapOrders(p) ==
    LET S == {w \in DOMAIN p : Connected(p, w)}
    IN  {o \in [1..Cardinality(S) -> S] :
            \A i, j \in 1..Cardinality(S) : i # j => o[i] # o[j]}

\* the loop of Pool.SelectWorker from position i of order o on, with best
\* the worker kept so far ("" for nil, bestLoad 2.0): a worker with
\* load >= 1.0 is skipped, one with load < bestLoad becomes best
RECURSIVE SelectLoop(_, _, _, _)
SelectLoop(p, o, i, best) ==
    IF i > Len(o) THEN best
    ELSE IF ~HasCapacity(p[o[i]]) THEN SelectLoop(p, o, i + 1, best)
    ELSE IF best = "" \/ LoadLess(p[o[i]], p[best]) THEN SelectLoop(p, o, i + 1, o[i])
    ELSE SelectLoop(p, o, i + 1, best)

\* Pool.SelectWorker: the workers it can return, one for each order of the
\* range over the map; empty when it returns nil
SelectWorker(p) == {SelectLoop(p, o, 1, "") : o \in MapOrders(p)} \ {""}

\* an IncrementActive that does not count: a faulty variant
IncrementActiveNot(p, w) == p

\* ConnectedWorker.IncrementActive on the pool entry w
IncrementActive(p, w) == [p EXCEPT ![w].active = @ + 1]

\* pool.Get(w) followed by DecrementActive when the worker is found
DecrementActive(p, w) ==
    IF w \in DOMAIN p /\ Connected(p, w) /\ p[w].active > 0
    THEN [p EXCEPT ![w].active = @ - 1]
    ELSE p

\* ------------------------------------------------------------------ Init
\* the orchestrator and the dispatcher at start, the pool, the owner's
\* quota row and the agents' short-term maximum left open
InitCore ==
    /\ agent \in AgentStates
    /\ busUp = TRUE
    /\ orch = [m \in Requests |-> "queued"]
    /\ tasks = [m \in Requests |-> "none"]
    /\ redeliv = 0
    /\ atWorker = {}
    /\ resultCh = <<>>
    /\ pending = [m \in Requests |-> NoTask]
    /\ cpc = CIdle
    /\ rpc = RIdle
    /\ epc = EIdle
    /\ outbound = EmptyBag
    /\ executions = EmptyBag
    /\ audits = EmptyBag
    /\ memory = [turns |-> 0, longterm |-> 0]
    /\ sends = [m \in Requests |-> 0]
    /\ ins = [m \in Requests |-> 0]
    /\ term = [m \in Requests |-> <<>>]
    /\ published = EmptyBag
    /\ clock = [t |-> 0, n |-> 0]
    /\ window = <<>>
    /\ windowTTL = 0
    /\ checks = [c \in Callers |-> NoCheck]
    /\ grants = [t \in 0..MaxClock |-> 0]
    /\ ltm = {}
    /\ search = NoSearch
    /\ rings = [k \in RingKeys |-> <<>>]
    /\ appended = [p \in RingPairs |-> <<>>]
    /\ stmOp = NoOp
    /\ turn = NoTurn
    /\ observed = <<>>
    /\ cancelled = FALSE
    /\ loops = [l \in Starts |-> "running"]
    /\ shutdown = "serving"
    /\ closed = <<>>
    /\ inbox = <<>>
    /\ placed = <<>>
    /\ requests = {}
    /\ delivered = [m \in Requests |-> 0]
    /\ day = NoDay

\* the same with the stream server: no stream is open, table ai_workers is
\* empty
InitDispatcher ==
    /\ InitCore
    /\ streams = [w \in WorkerIds |-> NoStream]
    /\ acks = [w \in WorkerIds |-> "none"]
    /\ workerRows = [w \in WorkerIds |-> "none"]

\* the pipeline at start: NewPool, no worker is connected; every message is
\* addressed to the agent a1 of owner o1, whose stored system prompt is plain
\* text and whose governance row is what the variable agent says
InitPipeline ==
    /\ InitDispatcher
    /\ taskMeta = [m \in Requests |-> DefaultMeta]
    /\ agentRow = DefaultAgentRow
    /\ pool = [w \in WorkerIds |-> NoWorker]
    /\ shortTermMax = DefaultMaxShortTermMsgs

\* an owner whose user_quotas row exists (it has been created by GetOrCreate)
Init ==
    /\ InitPipeline
    /\ quota = [row |-> TRUE, tokens_used_today |-> 0, requests_today |-> 0,
                violations |-> <<>>]

\* an owner who has no user_quotas row yet: creating a user inserts none
InitFreshOwner ==
    /\ InitPipeline
    /\ quota = [row |-> FALSE, tokens_used_today |-> 0, requests_today |-> 0,
                violations |-> <<>>]

\* ---------------------------------------------------------- environment
\* time passes: every pending entry is one unit older.  age stands for
\* now - DispatchedAt; it is kept up to TaskTimeout + 1, beyond which the
\* reaper's test no longer changes
Tick ==
    /\ \E r \in Requests : pending[r].k # 0 /\ pending[r].age <= TaskTimeout
    /\ pending' = [r \in Requests |->
                     IF pending[r].k # 0 /\ pending[r].age <= TaskTimeout
                     THEN [pending[r] EXCEPT !.age = @ + 1]
                     ELSE pending[r]]
    /\ UNCHANGED streamVars
    /\ UNCHANGED published
    /\ UNCHANGED storeVars
    /\ UNCHANGED <<agent, busUp, orch, tasks, redeliv, pool, atWorker, resultCh,
                   cpc, rpc, epc, outbound, executions, audits, quota,
                   memory, sends, ins, term>>

\* the bus becomes unreachable / reachable again
BusToggle ==
    /\ busUp' = ~busUp
    /\ UNCHANGED streamVars
    /\ UNCHANGED published
    /\ UNCHANGED storeVars
    /\ UNCHANGED <<agent, orch, tasks, redeliv, pool, atWorker, resultCh,
                   pending, cpc, rpc, epc, outbound, executions, audits, quota,
                   memory, sends, ins, term>>

\* the REST layer blocks or soft-deletes the agent
AgentChange ==
    /\ agent = "ok"
    /\ agent' \in {"blocked", "deleted"}
    /\ UNCHANGED streamVars
    /\ UNCHANGED published
    /\ UNCHANGED storeVars
    /\ UNCHANGED <<busUp, orch, tasks, redeliv, pool, atWorker, resultCh,
                   pending, cpc, rpc, epc, outbound, executions, audits, quota,
                   memory, sends, ins, term>>

\* the bus delivers an already handled task message once more (the Ack is
\* sent with its error ignored; delivery is at-least-once)
Redeliver(r) ==
    /\ tasks[r] = "acked"
    /\ redeliv < MaxRedeliver
    /\ redeliv' = redeliv + 1
    /\ tasks' = [tasks EXCEPT ![r] = "ready"]
    /\ UNCHANGED streamVars
    /\ UNCHANGED published
    /\ UNCHANGED storeVars
    /\ UNCHANGED <<agent, busUp, orch, pool, atWorker, resultCh,
                   pending, cpc, rpc, epc, outbound, executions, audits, quota,
                   memory, sends, ins, term>>

\* ---------------------------------------------------------- orchestrator
\* a Route that resolves every JID: a faulty variant
RouteAlwaysOK == TRUE

\* Router.Route: the agent is found unless it is soft-deleted
RouteOK == agent # "deleted"

\* Validate without the governance check: a faulty variant
ValidateIgnoringGovernance == TRUE

\* Validator.Validate / checkGovernance: a blocked agent is rejected, and so
\* is one whose JID domain is not among the allowed domains
ValidateOK == agent \notin {"blocked", "domain"}

\* a placeholder reply sent back to the agent's own address: a faulty variant
PlaceholderToAgent(m) ==
    OutboundMessage(AgentJid, FromJid(m),
                    <<"[", AgentName, "] Message received. AI processing will be available in Phase 3.">>,
                    m)

\* the placeholder reply of processMessage
Placeholder(m) ==
    OutboundMessage(FromJid(m), AgentJid,
                    <<"[", AgentName, "] Message received. AI processing will be available in Phase 3.">>,
                    m)

\* Orchestrator.processMessage
ProcessMessage(m) ==
    /\ orch[m] = "queued"
    /\ IF ~RouteOK
       THEN /\ orch' = [orch EXCEPT ![m] = "notfound"]
            /\ outbound' = PublishOutboundMessage(outbound, OrchErrorResponse(m, "Agent not found"))
            /\ UNCHANGED <<tasks, audits, published>>
       ELSE IF ~ValidateOK
       THEN /\ orch' = [orch EXCEPT ![m] = "unauth"]
            /\ outbound' = PublishOutboundMessage(outbound, OrchErrorResponse(m, "Message not authorized"))
            /\ UNCHANGED <<tasks, audits, published>>
       ELSE /\ orch' = [orch EXCEPT ![m] = "routed"]
            /\ published' = PublishTask(published, RouteResult(ToJid(m)).AgentID,
                                        TaskMessage(m))
            /\ tasks' = [tasks EXCEPT ![m] = IF busUp THEN "ready" ELSE @]
            /\ outbound' = PublishOutboundMessage(outbound, Placeholder(m))
            /\ audits' = PublishAuditEvent(audits, [EventType |-> "message_routed", Severity |-> "info"])
    /\ UNCHANGED streamVars
    /\ UNCHANGED storeVars
    /\ UNCHANGED <<agent, busUp, redeliv, pool, atWorker, resultCh,
                   pending, cpc, rpc, epc, executions, quota,
                   memory, sends, ins, term>>

\* Orchestrator.processMessage with the outcome of agentRepo.GetByID inside
\* Router.Route: when the query fails Route returns an error, and
\* processMessage treats every error of Route alike
ProcessMessageLookup(m, queryOK) ==
    IF queryOK
    THEN ProcessMessage(m)
    ELSE /\ orch[m] = "queued"
         /\ orch' = [orch EXCEPT ![m] = "notfound"]
         /\ outbound' = PublishOutboundMessage(outbound, OrchErrorResponse(m, "Agent not found"))
         /\ UNCHANGED <<tasks, audits, published>>
         /\ UNCHANGED streamVars
         /\ UNCHANGED storeVars
         /\ UNCHANGED <<agent, busUp, redeliv, pool, atWorker, resultCh,
                        pending, cpc, rpc, epc, executions, quota,
                        memory, sends, ins, term>>

\* ------------------------------------------------------------ worker pool
\* the ConnectedWorker TaskStream builds from a RegisterWorker message
NewWorker(mc) ==
    [on |-> TRUE,
     max |-> IF mc <= 0 THEN DefaultMaxConcurrent ELSE mc,
     active |-> 0]

\* a Register that replaces the entry of a connected worker: a faulty variant
PoolRegisterOverwrite(p, w, cw) == [ok |-> TRUE, pool |-> [p EXCEPT ![w] = cw]]

\* Pool.Register: the value returned and the pool afterwards
PoolRegister(p, w, cw) ==
    IF Connected(p, w)
    THEN [ok |-> FALSE, pool |-> p]
    ELSE [ok |-> TRUE, pool |-> [p EXCEPT ![w] = cw]]

\* an Unregister that leaves the worker in the pool: a faulty variant
UnregisterNot(p, w) == p

\* Pool.Unregister
Unregister(p, w) == [p EXCEPT ![w] = NoWorker]

\* Server.TaskStream after Pool.Register returned true for worker_id w and
\* left pool p: UpsertWorker, RegisterAck accepted, the receive loop starts
TaskStreamAccepted(w, p) ==
    /\ pool' = p
    /\ workerRows' = [workerRows EXCEPT ![w] = "healthy"]
    /\ acks' = [acks EXCEPT ![w] = "accepted"]
    /\ streams' = [streams EXCEPT ![w] = [up |-> TRUE, hand |-> NoResp]]

\* Server.TaskStream up to the RegisterAck, for a worker_id that is not
\* connected
Register(w, mc) ==
    /\ ~Connected(pool, w)
    /\ TaskStreamAccepted(w, PoolRegister(pool, w, NewWorker(mc)).pool)
    /\ UNCHANGED published
    /\ UNCHANGED storeVars
    /\ UNCHANGED <<agent, busUp, orch, tasks, redeliv, atWorker, resultCh,
                   pending, cpc, rpc, epc, outbound, executions, audits, quota,
                   memory, sends, ins, term>>

\* Server.TaskStream up to the RegisterAck, for any worker_id: a stream whose
\* registration is rejected gets RegisterAck accepted = false and the handler
\* returns; a stream whose accepted Ack cannot be sent is unregistered again
TaskStreamOpen(w, mc) ==
    /\ LET reg == PoolRegister(pool, w, NewWorker(mc))
       IN  \/ /\ ~reg.ok
              /\ pool' = reg.pool
              /\ acks' = [acks EXCEPT ![w] = "rejected"]
              /\ UNCHANGED <<streams, workerRows>>
           \/ /\ reg.ok
              /\ TaskStreamAccepted(w, reg.pool)
           \/ /\ reg.ok
              /\ pool' = Unregister(reg.pool, w)
              /\ workerRows' = [workerRows EXCEPT ![w] = "healthy"]
              /\ UNCHANGED <<streams, acks>>
    /\ UNCHANGED published
    /\ UNCHANGED storeVars
    /\ UNCHANGED <<agent, busUp, orch, tasks, redeliv, atWorker, resultCh,
                   pending, cpc, rpc, epc, outbound, executions, audits, quota,
                   memory, sends, ins, term>>

\* the ghost field live of a record x falls when x.w disconnects
Stale(x, w) == IF x.w = w THEN [x EXCEPT !.live = FALSE] ELSE x

\* Server.TaskStream after the receive loop: the stream ended and the
\* handler, which holds no response, unregisters the worker and marks it
\* offline.  The requests the worker had not answered are lost with it
Disconnect(w) ==
    /\ Connected(pool, w)
    /\ pool' = Unregister(pool, w)
    /\ streams' = [streams EXCEPT ![w] = NoStream]
    /\ workerRows' = [workerRows EXCEPT ![w] = "offline"]
    /\ atWorker' = {t \in atWorker : t.w # w}
    /\ pending' = [r \in Requests |-> Stale(pending[r], w)]
    /\ cpc' = Stale(cpc, w)
    /\ rpc' = Stale(rpc, w)
    /\ epc' = [epc EXCEPT !.exp = {Stale(pt, w) : pt \in @}]
    /\ UNCHANGED published
    /\ UNCHANGED storeVars
    /\ UNCHANGED <<agent, busUp, orch, tasks, redeliv, resultCh,
                   outbound, executions, audits, quota,
                   memory, sends, ins, term, acks>>

\* Server.TaskStream taken step by step --------------------------------
\* the stream of worker w ends (EOF or error): the worker is gone, and with
\* it the requests it had not answered.  The handler learns of the end at
\* its next stream.Recv
StreamEnd(w) ==
    /\ streams[w].up
    /\ streams' = [streams EXCEPT ![w].up = FALSE]
    /\ atWorker' = {t \in atWorker : t.w # w}
    /\ UNCHANGED published
    /\ UNCHANGED storeVars
    /\ UNCHANGED <<agent, busUp, orch, tasks, redeliv, pool, resultCh,
                   pending, cpc, rpc, epc, outbound, executions, audits, quota,
                   memory, sends, ins, term, acks, workerRows>>

\* receive loop: stream.Recv returns the TaskResponse to request t, which is
\* stamped with the worker_id of the stream
ReaderRecv(t, err) ==
    /\ t \in atWorker
    /\ streams[t.w].up
    /\ streams[t.w].hand = NoResp
    /\ streams' = [streams EXCEPT ![t.w].hand = [r |-> t.r, w |-> t.w, err |-> err]]
    /\ atWorker' = atWorker \ {t}
    /\ UNCHANGED published
    /\ UNCHANGED storeVars
    /\ UNCHANGED <<agent, busUp, orch, tasks, redeliv, pool, resultCh,
                   pending, cpc, rpc, epc, outbound, executions, audits, quota,
                   memory, sends, ins, term, acks, workerRows>>

\* receive loop: s.resultCh <- resp, which blocks while the channel is full
ReaderPut(w) ==
    /\ streams[w].hand # NoResp
    /\ Len(resultCh) < ResultChCap
    /\ resultCh' = Append(resultCh, streams[w].hand)
    /\ streams' = [streams EXCEPT ![w].hand = NoResp]
    /\ UNCHANGED published
    /\ UNCHANGED storeVars
    /\ UNCHANGED <<agent, busUp, orch, tasks, redeliv, pool, atWorker,
                   pending, cpc, rpc, epc, outbound, executions, audits, quota,
                   memory, sends, ins, term, acks, workerRows>>

\* receive loop: stream.Recv returns an error; Unregister, MarkWorkerOffline
ReaderCleanup(w) ==
    /\ Connected(pool, w)
    /\ ~streams[w].up
    /\ streams[w].hand = NoResp
    /\ pool' = Unregister(pool, w)
    /\ workerRows' = [workerRows EXCEPT ![w] = "offline"]
    /\ pending' = [r \in Requests |-> Stale(pending[r], w)]
    /\ cpc' = Stale(cpc, w)
    /\ rpc' = Stale(rpc, w)
    /\ epc' = [epc EXCEPT !.exp = {Stale(pt, w) : pt \in @}]
    /\ UNCHANGED published
    /\ UNCHANGED storeVars
    /\ UNCHANGED <<agent, busUp, orch, tasks, redeliv, atWorker, resultCh,
                   outbound, executions, audits, quota,
                   memory, sends, ins, term, streams, acks>>

\* a worker answers a TaskRequest it received; Server.TaskStream stamps the
\* response with the worker_id of the stream and puts it on the channel
WorkerRespond(t, err) ==
    /\ t \in atWorker
    /\ Len(resultCh) < ResultChCap
    /\ resultCh' = Append(resultCh, [r |-> t.r, w |-> t.w, err |-> err])
    /\ atWorker' = atWorker \ {t}
    /\ UNCHANGED streamVars
    /\ UNCHANGED published
    /\ UNCHANGED storeVars
    /\ UNCHANGED <<agent, busUp, orch, tasks, redeliv, pool,
                   pending, cpc, rpc, epc, outbound, executions, audits, quota,
                   memory, sends, ins, term>>

\* ------------------------------------------------- dispatcher: consume loop
\* the outcome of the agent lookup and the governance gate of handleTask:
\* "" when the task goes on to worker selection, else the error text
GateError ==
    CASE agent = "deleted" -> "Agent not found"
      [] agent = "blocked" -> "Agent is blocked by governance policy"
      [] agent = "provider" -> "LLM provider 'p1' not allowed by governance policy"
      [] OTHER -> ""

\* handleTask on a delivery of task message r: the branches that return
\* before a worker has been selected
HandleTaskReject(r) ==
    \/ \* agentSvc.GetByID fails: Nak
       UNCHANGED <<tasks, cpc, outbound, pool, atWorker, sends>>
    \/ \* agent not found, blocked or provider not allowed: error reply, Ack
       /\ GateError # ""
       /\ outbound' = PublishOutboundMessage(outbound,
                         DispErrorResponse(TaskMessage(r), GateError))
       /\ tasks' = [tasks EXCEPT ![r] = "acked"]
       /\ UNCHANGED <<cpc, pool, atWorker, sends>>
    \/ \* no worker with capacity: Nak
       /\ GateError = ""
       /\ SelectWorker(pool) = {}
       /\ tasks' = [tasks EXCEPT ![r] = "nocap"]
       /\ UNCHANGED <<cpc, outbound, pool, atWorker, sends>>

\* handleTask on a delivery of task message r, up to worker.IncrementActive.
\* The lookup, the gate and SelectWorker only read; Send and IncrementActive
\* act on the worker SelectWorker returned
HandleTaskDispatch(r) ==
    /\ cpc.st = "idle"
    /\ tasks[r] \in {"ready", "nocap"}
    /\ \/ HandleTaskReject(r)
       \/ \* a worker is selected, Send returns an error: Nak
          /\ GateError = ""
          /\ SelectWorker(pool) # {}
          /\ UNCHANGED <<tasks, cpc, outbound, pool, atWorker, sends>>
       \/ \* a worker is selected and the TaskRequest is sent
          /\ GateError = ""
          /\ \E w \in SelectWorker(pool) :
                /\ atWorker' = atWorker \cup
                      {[r |-> r, w |-> w, n |-> sends[r] + 1]}
                /\ pool' = IncrementActive(pool, w)
                /\ cpc' = [st |-> "sent", r |-> r, w |-> w, live |-> TRUE,
                           nocap |-> (tasks[r] = "nocap")]
          /\ sends' = [sends EXCEPT ![r] = @ + 1]
          /\ tasks' = [tasks EXCEPT ![r] = "inflight"]
          /\ UNCHANGED outbound
    /\ UNCHANGED streamVars
    /\ UNCHANGED published
    /\ UNCHANGED storeVars
    /\ UNCHANGED <<agent, busUp, orch, redeliv, resultCh,
                   pending, rpc, epc, executions, audits, quota,
                   memory, ins, term>>

\* handleTask: insert the pending entry under the lock, then Ack
HandleTaskTrack ==
    /\ cpc.st = "sent"
    /\ pending' = [pending EXCEPT ![cpc.r] =
                     [k |-> ins[cpc.r] + 1, w |-> cpc.w, live |-> cpc.live, age |-> 0]]
    /\ ins' = [ins EXCEPT ![cpc.r] = @ + 1]
    /\ term' = [term EXCEPT ![cpc.r] = Append(@, [res |-> 0, reap |-> 0, dec |-> 0])]
    /\ tasks' = [tasks EXCEPT ![cpc.r] = "acked"]
    /\ cpc' = CIdle
    /\ UNCHANGED streamVars
    /\ UNCHANGED published
    /\ UNCHANGED storeVars
    /\ UNCHANGED <<agent, busUp, orch, redeliv, pool, atWorker, resultCh,
                   rpc, epc, outbound, executions, audits, quota,
                   memory, sends>>

\* -------------------------------------------------- dispatcher: result loop
\* a lookup that finds an entry for every request: a faulty variant
FoundAlways(pt) == TRUE

\* pt, ok := d.pending[resp.RequestId]: whether the lookup found an entry
Found(pt) == pt.k # 0

\* handleTask taken statement by statement -----------------------------
\* a handleTask that goes on after a failed Send: a faulty variant
AfterSendIgnoringError(sent) == "send"

\* where handleTask goes after worker.Send: on to IncrementActive, or into
\* the error branch
AfterSend(sent) == IF sent THEN "send" ELSE "sendfailed"

\* handleTask on a delivery of task message r, up to the return of
\* worker.Send; a TaskRequest whose Send failed does not reach the worker
HandleTaskSend(r) ==
    /\ cpc.st = "idle"
    /\ tasks[r] \in {"ready", "nocap"}
    /\ \/ HandleTaskReject(r)
       \/ \* a worker is selected and Send is called
          /\ GateError = ""
          /\ \E w \in SelectWorker(pool), sent \in BOOLEAN :
                /\ atWorker' = IF sent
                                THEN atWorker \cup {[r |-> r, w |-> w, n |-> sends[r] + 1]}
                                ELSE atWorker
                /\ sends' = IF sent THEN [sends EXCEPT ![r] = @ + 1] ELSE sends
                /\ tasks' = IF sent THEN [tasks EXCEPT ![r] = "inflight"] ELSE tasks
                /\ cpc' = [st |-> AfterSend(sent), r |-> r, w |-> w, live |-> TRUE,
                           nocap |-> (tasks[r] = "nocap")]
          /\ UNCHANGED <<outbound, pool>>
    /\ UNCHANGED streamVars
    /\ UNCHANGED published
    /\ UNCHANGED storeVars
    /\ UNCHANGED <<agent, busUp, orch, redeliv, resultCh,
                   pending, rpc, epc, executions, audits, quota,
                   memory, ins, term>>

\* handleTask, the error branch of worker.Send: msg.Nak() and return.  The
\* task message stays on the stream and is delivered again
HandleTaskNak ==
    /\ cpc.st = "sendfailed"
    /\ cpc' = CIdle
    /\ UNCHANGED streamVars
    /\ UNCHANGED published
    /\ UNCHANGED storeVars
    /\ UNCHANGED <<agent, busUp, orch, tasks, redeliv, pool, atWorker, resultCh,
                   pending, rpc, epc, outbound, executions, audits, quota,
                   memory, sends, ins, term>>

\* handleTask: worker.IncrementActive()
HandleTaskCount ==
    /\ cpc.st = "send"
    /\ pool' = IncrementActive(pool, cpc.w)
    /\ cpc' = [cpc EXCEPT !.st = "sent"]
    /\ UNCHANGED streamVars
    /\ UNCHANGED published
    /\ UNCHANGED storeVars
    /\ UNCHANGED <<agent, busUp, orch, tasks, redeliv, atWorker, resultCh,
                   pending, rpc, epc, outbound, executions, audits, quota,
                   memory, sends, ins, term>>

\* handleTask: d.pending[task.RequestID] = &pendingTask{...} under the lock
HandleTaskInsert ==
    /\ cpc.st = "sent"
    /\ pending' = [pending EXCEPT ![cpc.r] =
                     [k |-> ins[cpc.r] + 1, w |-> cpc.w, live |-> cpc.live, age |-> 0]]
    /\ ins' = [ins EXCEPT ![cpc.r] = @ + 1]
    /\ term' = [term EXCEPT ![cpc.r] = Append(@, [res |-> 0, reap |-> 0, dec |-> 0])]
    /\ cpc' = [cpc EXCEPT !.st = "tracked"]
    /\ UNCHANGED streamVars
    /\ UNCHANGED published
    /\ UNCHANGED storeVars
    /\ UNCHANGED <<agent, busUp, orch, tasks, redeliv, pool, atWorker, resultCh,
                   rpc, epc, outbound, executions, audits, quota,
                   memory, sends>>

\* handleTask: msg.Ack()
HandleTaskAck ==
    /\ cpc.st = "tracked"
    /\ tasks' = [tasks EXCEPT ![cpc.r] = "acked"]
    /\ cpc' = CIdle
    /\ UNCHANGED streamVars
    /\ UNCHANGED published
    /\ UNCHANGED storeVars
    /\ UNCHANGED <<agent, busUp, orch, redeliv, pool, atWorker, resultCh,
                   pending, rpc, epc, outbound, executions, audits, quota,
                   memory, sends, ins, term>>

\* handleResult, the critical section: look the request up and delete it
HandleResultTake ==
    /\ rpc.st = "idle"
    /\ resultCh # <<>>
    /\ LET resp == Head(resultCh)
           pt == pending[resp.r]
       IN  /\ resultCh' = Tail(resultCh)
           /\ IF Found(pt)
              THEN /\ pending' = [pending EXCEPT ![resp.r] = NoTask]
                   /\ rpc' = [st |-> "matched", r |-> resp.r, k |-> pt.k, w |-> pt.w,
                              live |-> pt.live, rw |-> resp.w, err |-> resp.err]
              ELSE \* unknown request: dropped
                   UNCHANGED <<pending, rpc>>
    /\ UNCHANGED streamVars
    /\ UNCHANGED published
    /\ UNCHANGED storeVars
    /\ UNCHANGED <<agent, busUp, orch, tasks, redeliv, pool, atWorker,
                   cpc, epc, outbound, executions, audits, quota,
                   memory, sends, ins, term>>

\* a status that ignores error_message: a faulty variant
StatusIgnoringError(err) == "completed"

\* the status handleResult gives a response
Status(err) == IF err THEN "error" ELSE "completed"

\* the outbound message handleResult builds from the pending entry
ResultOutbound(r, err) ==
    OutboundMessage(TaskMessage(r).FromJID, TaskMessage(r).AgentJID,
                    IF Status(err) = "error"
                    THEN <<"Error processing your message: ", RespError>>
                    ELSE <<RespText>>,
                    r)

\* the audit event handleResult publishes
ResultAudit(err) ==
    IF Status(err) = "error"
    THEN [EventType |-> "task_failed", Severity |-> "warn"]
    ELSE [EventType |-> "task_completed", Severity |-> "info"]

\* Repository.ResetDailyIfStale: an UPDATE of the owner's row WHERE
\* last_daily_reset < NOW() - 24 h (stale)
ResetDailyIfStale(q, stale) ==
    IF q.row /\ stale
    THEN [q EXCEPT !.tokens_used_today = 0, !.requests_today = 0]
    ELSE q

\* the counters a reset before every call would give: before a read
IdealRead(i) ==
    IF i.stale THEN [stale |-> FALSE, tokens |-> 0, requests |-> 0] ELSE i

\* the counters a reset before every call would give: after a deduction
IdealDeduct(i, tokens) ==
    [IdealRead(i) EXCEPT !.tokens = @ + tokens, !.requests = @ + 1]

\* ResetDailyIfStale followed by GetOrCreate: last_daily_reset is NOW() after
\* the reset and in a row just inserted
DayAfterReset(d) == [stale |-> FALSE, ideal |-> IdealRead(d.ideal)]

\* Repository.IncrementDaily: an UPDATE of the owner's row; without a row it
\* changes nothing and reports no error
IncrementDaily(q, tokens) ==
    IF q.row
    THEN [q EXCEPT !.tokens_used_today = @ + tokens, !.requests_today = @ + 1]
    ELSE q

\* quotaSvc.DeductTokens, called on completed responses with tokens_used > 0
DeductTokens(q, status, tokens) ==
    IF status = "completed" /\ tokens > 0
    THEN IncrementDaily(q, tokens)
    ELSE q

\* the memory write path of handleResult
StoreMemory(mem, status, cfg, newMemories) ==
    IF cfg.Enabled /\ status = "completed"
    THEN [turns |-> mem.turns + (IF cfg.ShortTermEnabled THEN 2 ELSE 0),
          longterm |-> mem.longterm + (IF cfg.LongTermEnabled THEN newMemories ELSE 0)]
    ELSE mem

\* handleResult after the critical section, for a response with n new
\* memories: all it does outside the memory stores
ResultHandled(n) ==
    /\ rpc.st = "matched"
    /\ pool' = DecrementActive(pool, rpc.rw)
    /\ outbound' = PublishOutboundMessage(outbound, ResultOutbound(rpc.r, rpc.err))
    /\ executions' = executions (+) SetToBag({[Input |-> rpc.r, Status |-> Status(rpc.err),
                                               WorkerID |-> rpc.rw]})
    /\ quota' = DeductTokens(quota, Status(rpc.err), RespTokens)
    /\ memory' = StoreMemory(memory, Status(rpc.err), taskMeta[rpc.r].MemoryConfig, n)
    /\ audits' = PublishAuditEvent(audits, ResultAudit(rpc.err))
    /\ term' = [term EXCEPT ![rpc.r][rpc.k] =
                  [@ EXCEPT !.res = @ + 1,
                            !.dec = @ + (IF pool' # pool THEN 1 ELSE 0)]]
    /\ rpc' = RIdle
    /\ UNCHANGED streamVars
    /\ UNCHANGED published
    /\ UNCHANGED <<agent, busUp, orch, tasks, redeliv, atWorker, resultCh,
                   pending, cpc, epc, sends, ins>>

\* handleResult after the critical section
HandleResultFinish ==
    /\ ResultHandled(RespNewMemories)
    /\ UNCHANGED storeVars

\* ------------------------------------------------------ dispatcher: reaper
\* the entries expireStale removes on a tick: now - DispatchedAt > taskTimeout
Expired(pend) ==
    {r \in Requests : pend[r].k # 0 /\ pend[r].age > TaskTimeout}

\* expireStale, the critical section: collect and delete the stale entries
ExpireStaleScan ==
    /\ epc.st = "idle"
    /\ Expired(pending) # {}
    /\ epc' = [st |-> "expiring",
               exp |-> {[r |-> r, k |-> pending[r].k, w |-> pending[r].w,
                         live |-> pending[r].live] : r \in Expired(pending)}]
    /\ pending' = [r \in Requests |->
                     IF r \in Expired(pending) THEN NoTask ELSE pending[r]]
    /\ UNCHANGED streamVars
    /\ UNCHANGED published
    /\ UNCHANGED storeVars
    /\ UNCHANGED <<agent, busUp, orch, tasks, redeliv, pool, atWorker, resultCh,
                   cpc, rpc, outbound, executions, audits, quota,
                   memory, sends, ins, term>>

\* the timeout reply of expireStale
TimeoutOutbound(r) ==
    OutboundMessage(TaskMessage(r).FromJID, TaskMessage(r).AgentJID,
                    <<"Sorry, the request timed out", ". Please try again.">>, r)

\* expireStale, one removed entry: reply, execution record, decrement
ExpireStaleEntry(pt) ==
    /\ epc.st = "expiring"
    /\ pt \in epc.exp
    /\ outbound' = PublishOutboundMessage(outbound, TimeoutOutbound(pt.r))
    /\ executions' = executions (+) SetToBag({[Input |-> pt.r, Status |-> "timeout",
                                               WorkerID |-> pt.w]})
    /\ pool' = DecrementActive(pool, pt.w)
    /\ term' = [term EXCEPT ![pt.r][pt.k] =
                  [@ EXCEPT !.reap = @ + 1,
                            !.dec = @ + (IF pool' # pool THEN 1 ELSE 0)]]
    /\ epc' = IF epc.exp = {pt} THEN EIdle ELSE [epc EXCEPT !.exp = @ \ {pt}]
    /\ UNCHANGED streamVars
    /\ UNCHANGED published
    /\ UNCHANGED storeVars
    /\ UNCHANGED <<agent, busUp, orch, tasks, redeliv, atWorker, resultCh,
                   pending, cpc, rpc, audits, quota,
                   memory, sends, ins>>

\* ------------------------------------------------------------------- Next
\* the steps of the pipeline while the bus accepts every publish
Next ==
    \/ Tick
    \/ AgentChange
    \/ \E r \in Requests : Redeliver(r)
    \/ \E m \in Requests : ProcessMessage(m)
    \/ \E w \in WorkerIds, mc \in RegMaxConcurrent : Register(w, mc)
    \/ \E w \in WorkerIds : Disconnect(w)
    \/ \E t \in atWorker, err \in BOOLEAN : WorkerRespond(t, err)
    \/ \E r \in Requests : HandleTaskDispatch(r)
    \/ HandleTaskTrack
    \/ HandleResultTake
    \/ HandleResultFinish
    \/ ExpireStaleScan
    \/ \E pt \in epc.exp : ExpireStaleEntry(pt)

Spec == Init /\ [][Next]_vars

\* GET /governance/quota: GetQuota runs ResetDailyIfStale, then GetOrCreate,
\* which inserts the owner's row when there is none, and reads the counters
GetQuota ==
    /\ quota' = [ResetDailyIfStale(quota, day.stale) EXCEPT !.row = TRUE]
    /\ day' = DayAfterReset(day)
    /\ quota' # quota \/ day' # day
    /\ UNCHANGED streamVars
    /\ UNCHANGED published
    /\ UNCHANGED <<limiterVars, memVars, turnVars, lifeVars, readVars, gateVars,
                   taskMeta>>
    /\ UNCHANGED <<agent, busUp, orch, tasks, redeliv, pool, atWorker, resultCh,
                   pending, cpc, rpc, epc, outbound, executions, audits,
                   memory, sends, ins, term>>

\* the pipeline without redelivery, disconnects and timeouts, for an owner
\* whose quota row is created only by a GET of the quota
NextFreshOwner ==
    \/ GetQuota
    \/ \E m \in Requests : ProcessMessage(m)
    \/ \E w \in WorkerIds, mc \in RegMaxConcurrent : Register(w, mc)
    \/ \E t \in atWorker, err \in BOOLEAN : WorkerRespond(t, err)
    \/ \E r \in Requests : HandleTaskDispatch(r)
    \/ HandleTaskTrack
    \/ HandleResultTake
    \/ HandleResultFinish

SpecFreshOwner == InitFreshOwner /\ [][NextFreshOwner]_vars

\* Pool alone ---------------------------------------------------------
\* the ConnectedWorker values a caller can hand to Pool.Register
SelectWorkers ==
    {NoWorker} \cup [on : {TRUE}, max : SelectMaxConcurrent, active : 0..MaxSelectActive]

\* a pool of any workers: Pool.Register takes every ConnectedWorker as it is
InitSelect ==
    /\ InitDispatcher
    /\ quota = [row |-> TRUE, tokens_used_today |-> 0, requests_today |-> 0,
                violations |-> <<>>]
    /\ pool \in [SelectIds -> SelectWorkers]
    /\ shortTermMax = DefaultMaxShortTermMsgs
    /\ taskMeta = [m \in Requests |-> DefaultMeta]
    /\ agentRow = DefaultAgentRow

\* SelectWorker followed by IncrementActive on the worker it returned
PoolSelect ==
    /\ \E w \in SelectWorker(pool) : pool' = IncrementActive(pool, w)
    /\ UNCHANGED streamVars
    /\ UNCHANGED published
    /\ UNCHANGED storeVars
    /\ UNCHANGED <<agent, busUp, orch, tasks, redeliv, atWorker, resultCh,
                   pending, cpc, rpc, epc, outbound, executions, audits, quota,
                   memory, sends, ins, term>>

\* Pool.Get followed by DecrementActive
PoolDecrement(w) ==
    /\ pool' = DecrementActive(pool, w)
    /\ pool' # pool
    /\ UNCHANGED streamVars
    /\ UNCHANGED published
    /\ UNCHANGED storeVars
    /\ UNCHANGED <<agent, busUp, orch, tasks, redeliv, atWorker, resultCh,
                   pending, cpc, rpc, epc, outbound, executions, audits, quota,
                   memory, sends, ins, term>>

\* Pool.Unregister
PoolUnregister(w) ==
    /\ Connected(pool, w)
    /\ pool' = Unregister(pool, w)
    /\ UNCHANGED streamVars
    /\ UNCHANGED published
    /\ UNCHANGED storeVars
    /\ UNCHANGED <<agent, busUp, orch, tasks, redeliv, atWorker, resultCh,
                   pending, cpc, rpc, epc, outbound, executions, audits, quota,
                   memory, sends, ins, term>>

NextSelect ==
    \/ PoolSelect
    \/ \E w \in SelectIds : PoolDecrement(w)
    \/ \E w \in SelectIds : PoolUnregister(w)

SpecSelect == InitSelect /\ [][NextSelect]_vars

\* the pipeline with handleTask taken statement by statement, so that the
\* result loop and the reaper run between any two statements of a dispatch
NextOrder ==
    \/ Tick
    \/ \E m \in Requests : ProcessMessage(m)
    \/ \E w \in WorkerIds, mc \in RegMaxConcurrent : Register(w, mc)
    \/ \E t \in atWorker, err \in BOOLEAN : WorkerRespond(t, err)
    \/ \E r \in Requests : HandleTaskSend(r)
    \/ HandleTaskNak
    \/ HandleTaskCount
    \/ HandleTaskInsert
    \/ HandleTaskAck
    \/ HandleResultTake
    \/ HandleResultFinish
    \/ ExpireStaleScan
    \/ \E pt \in epc.exp : ExpireStaleEntry(pt)

SpecOrder == Init /\ [][NextOrder]_vars

\* the pipeline with Server.TaskStream taken step by step: streams that
\* register with any worker_id, streams that end while their handler holds a
\* response, and a result channel of any fill level (redeliveries give the
\* responses that fill it).  Time does not pass: the reaper has nothing to do
NextStream ==
    \/ \E r \in Requests : Redeliver(r)
    \/ \E m \in Requests : ProcessMessage(m)
    \/ \E w \in WorkerIds, mc \in RegMaxConcurrent : TaskStreamOpen(w, mc)
    \/ \E w \in WorkerIds : StreamEnd(w)
    \/ \E t \in atWorker, err \in BOOLEAN : ReaderRecv(t, err)
    \/ \E w \in WorkerIds : ReaderPut(w)
    \/ \E w \in WorkerIds : ReaderCleanup(w)
    \/ \E r \in Requests : HandleTaskDispatch(r)
    \/ HandleTaskTrack
    \/ HandleResultTake
    \/ HandleResultFinish

\* every goroutine is scheduled: a stream handler that can put its response
\* on the channel or clean up does so, and the result loop takes the next
\* response and finishes handling it
FairStream ==
    /\ \A w \in WorkerIds : WF_vars(ReaderPut(w)) /\ WF_vars(ReaderCleanup(w))
    /\ WF_vars(HandleResultTake)
    /\ WF_vars(HandleResultFinish)

SpecStream == Init /\ [][NextStream]_vars /\ FairStream

\* the orchestrator alone, on a bus that may refuse any publish
NextBus ==
    \/ BusToggle
    \/ AgentChange
    \/ \E m \in Requests : ProcessMessage(m)

SpecBus == Init /\ [][NextBus]_vars

\* ===================================================================
\* Properties
\* ===================================================================
\* the outbound messages published in reply to m, and how many
Replies(m) == {o \in BagToSet(outbound) : o.InReplyTo = m}
ReplyCount(m) == BagCardinality([o \in Replies(m) |-> outbound[o]])

\* the replies of the dispatcher's result loop and reaper among them
TerminalReplies(r) ==
    {o \in Replies(r) : o.Body[1] \notin {"[", "Error: "}}
TerminalReplyCount(r) == BagCardinality([o \in TerminalReplies(r) |-> outbound[o]])

\* the execution rows recorded for request r, and how many
ExecutionsOf(r) == {e \in BagToSet(executions) : e.Input = r}
ExecCount(r) == BagCardinality([e \in ExecutionsOf(r) |-> executions[e]])

\* no handleTask, handleResult or expireStale call is in progress
Quiescent == cpc.st = "idle" /\ rpc.st = "idle" /\ epc.st = "idle"

RECURSIVE SumActive(_, _)
SumActive(p, W) ==
    IF W = {} THEN 0
    ELSE LET w == CHOOSE x \in W : TRUE
         IN  (IF p[w].on THEN p[w].active ELSE 0) + SumActive(p, W \ {w})

PendingSize == Cardinality({r \in Requests : pending[r].k # 0})

\* the terminal handlings of all entries inserted for r
RECURSIVE Handled(_, _)
Handled(r, n) ==
    IF n = 0 THEN 0
    ELSE term[r][n].res + term[r][n].reap + Handled(r, n - 1)

\* entry k of request r is in the pending map, or held by the loop that
\* removed it and is finishing its terminal effects
Tracked(r, k) ==
    \/ pending[r].k = k
    \/ rpc.st = "matched" /\ rpc.r = r /\ rpc.k = k
    \/ \E pt \in epc.exp : pt.r = r /\ pt.k = k

\* no connected worker has spare capacity
NoCapacity == \A w \in WorkerIds : pool[w].on => pool[w].active >= pool[w].max

\* -------------------------------------------------------------------
\* C1: every inbound message that the orchestrator routed and validated
\* gets exactly one outbound message with in_reply_to = its id, the
\* publications of the orchestrator, the result loop and the reaper counted
\* together: never more than one is on the outbound subject.
C1_OneReplyPerRoutedMessage ==
    \A m \in Requests : orch[m] = "routed" => ReplyCount(m) <= 1

\* -------------------------------------------------------------------
\* C2: at every quiescent state the sum of active_tasks over the workers in
\* the pool equals the number of entries of the pending map.
C2_ActiveSumEqualsPending ==
    Quiescent => SumActive(pool, WorkerIds) = PendingSize

\* -------------------------------------------------------------------
\* C3: in every reachable state every connected worker's active_tasks is at
\* most its max_concurrent.
C3_ActiveWithinMax ==
    \A w \in WorkerIds : pool[w].on => pool[w].active <= pool[w].max

\* a worker filled to its max_concurrent while a task was refused for lack
\* of capacity
C3_Witness ==
    \E w \in WorkerIds, r \in Requests :
        pool[w].on /\ pool[w].active = pool[w].max /\ tasks[r] = "nocap"

\* -------------------------------------------------------------------
\* C4: each entry inserted into pending is removed by exactly one of the
\* result loop and the reaper, which performs its terminal effects once: no
\* entry is handled twice, an entry that is no longer tracked was handled
\* once, and per request the terminal replies and the execution rows are as
\* many as the handlings.
C4_EntryTerminatedExactlyOnce ==
    \A r \in Requests :
        /\ \A k \in 1..Len(term[r]) :
              /\ term[r][k].res + term[r][k].reap <= 1
              /\ term[r][k].dec <= term[r][k].res + term[r][k].reap
              /\ ~Tracked(r, k) => term[r][k].res + term[r][k].reap = 1
        /\ ExecCount(r) = Handled(r, Len(term[r]))
        /\ TerminalReplyCount(r) = Handled(r, Len(term[r]))

\* -------------------------------------------------------------------
\* C5: the TaskRequest of a request_id is sent once, also when the bus
\* delivers its TaskMessage again.
C5_TaskRequestSentOnce ==
    \A r \in Requests : sends[r] <= 1

\* -------------------------------------------------------------------
\* C6: every inbound message the orchestrator consumed leads to an outbound
\* message addressed to its from_address, whatever the bus answers to the
\* publish calls.  Stated on the messages the pipeline is done with: consumed
\* by the orchestrator and with no task on the tasks stream.
C6_TerminalReplyOnEveryPath ==
    \A m \in Requests :
        (orch[m] # "queued" /\ tasks[m] = "none")
            => \E o \in BagToSet(outbound) : o.ToJID = FromJid(m)

\* -------------------------------------------------------------------
\* handleTask returns or goes on with task r
ConsumeStep(r) ==
    cpc.st = "idle" /\ tasks[r] \in {"ready", "nocap"} /\ tasks'[r] # tasks[r]

ReapStep(pt) ==
    /\ epc.st = "expiring" /\ pt \in epc.exp
    /\ epc' = IF epc.exp = {pt} THEN EIdle ELSE [epc EXCEPT !.exp = @ \ {pt}]

\* C8: on a reaper tick a pending entry is removed iff its age exceeds
\* task_timeout; for each removed entry the reaper publishes an outbound
\* message starting "Sorry, the request timed out" to the original sender
\* with in_reply_to = request_id, records an execution with status
\* "timeout", and decrements by one the active_tasks of the worker the task
\* was dispatched to, and of no other.
C8_ReaperTerminatesStaleEntries ==
    [][/\ (epc.st = "idle" /\ epc'.st = "expiring")
             => \A r \in Requests :
                   (pending[r].k # 0 /\ pending'[r].k = 0)
                       <=> (pending[r].k # 0 /\ pending[r].age > TaskTimeout)
       /\ \A pt \in epc.exp :
             ReapStep(pt)
                => /\ \E o \in BagToSet(outbound') :
                         /\ outbound' = outbound (+) SetToBag({o})
                         /\ o.Body[1] = "Sorry, the request timed out"
                         /\ o.ToJID = FromJid(pt.r)
                         /\ o.InReplyTo = pt.r
                   /\ \E e \in BagToSet(executions') :
                         /\ executions' = executions (+) SetToBag({e})
                         /\ e.Status = "timeout"
                         /\ e.Input = pt.r
                   /\ IF pt.live
                      THEN /\ pool[pt.w].active > 0
                           /\ pool' = [pool EXCEPT ![pt.w].active = @ - 1]
                      ELSE pool' = pool
      ]_vars

\* -------------------------------------------------------------------
\* C9: when a TaskResponse with a non-empty error_message is matched to a
\* pending entry, the outbound body is "Error processing your message: "
\* followed by the error message, the execution has status "error", the
\* audit event is task_failed with severity warn, and neither the quota nor
\* the short-term or long-term memory changes, although the response
\* carries tokens_used > 0 and new memories.
C9_ErrorResponseEffects ==
    [][(rpc.st = "matched" /\ rpc.err /\ rpc'.st = "idle")
          => /\ RespTokens > 0 /\ RespNewMemories > 0 /\ MemoryConfig.Enabled
             /\ \E o \in BagToSet(outbound') :
                   /\ outbound' = outbound (+) SetToBag({o})
                   /\ o.Body = <<"Error processing your message: ", RespError>>
                   /\ o.ToJID = FromJid(rpc.r)
                   /\ o.InReplyTo = rpc.r
             /\ \E e \in BagToSet(executions') :
                   /\ executions' = executions (+) SetToBag({e})
                   /\ e.Status = "error"
                   /\ e.Input = rpc.r
             /\ audits' = audits (+)
                   SetToBag({[EventType |-> "task_failed", Severity |-> "warn"]})
             /\ quota' = quota
             /\ memory' = memory
      ]_vars

\* an error response has been handled: its execution row is recorded
C9_Witness ==
    \E e \in BagToSet(executions) : e.Status = "error"

BlockedRejected(m) ==
    /\ Replies(m) = {OutboundMessage(FromJid(m), ToJid(m),
                                     <<"Error: ", "Message not authorized">>, m)}
    /\ ReplyCount(m) = 1
    /\ tasks[m] = "none"
    /\ sends[m] = 0
    /\ ins[m] = 0
    /\ pending[m].k = 0
    /\ ExecutionsOf(m) = {}

\* the executions recorded with status "completed"
CompletedCount ==
    BagCardinality([e \in {x \in BagToSet(executions) : x.Status = "completed"}
                        |-> executions[e]])

TaskCompleted == [EventType |-> "task_completed", Severity |-> "info"]

\* C11: no task_completed audit event is published while the agent's
\* governance has blocked = true, also for a task dispatched before the agent
\* was blocked.
C11_NoTaskCompletedWhileBlocked ==
    [][agent = "blocked"
          => CopiesIn(TaskCompleted, audits') = CopiesIn(TaskCompleted, audits)]_vars

\* C12: a completed response with tokens_used > 0 that matched a pending
\* entry adds tokens_used to the owner's tokens_used_today and one to
\* requests_today, whether or not the owner already has a quota row.
C12_CompletedResponseDeducts ==
    [][rpc.st = "matched" /\ rpc' = RIdle /\ ~rpc.err /\ RespTokens > 0
          => /\ quota'.tokens_used_today = quota.tokens_used_today + RespTokens
             /\ quota'.requests_today = quota.requests_today + 1]_vars

\* -------------------------------------------------------------------
\* the result loop takes the next response off the channel
TakeStep == rpc.st = "idle" /\ resultCh # <<>> /\ resultCh' = Tail(resultCh)

\* C13: a TaskResponse whose request_id is not in pending changes nothing:
\* pending and every worker's active_tasks stay as they are, and no outbound
\* message, execution record, quota deduction, memory write or audit event
\* is produced, neither at once nor by a later step of the result loop.
C13_UnknownResponseDropped ==
    [][TakeStep /\ pending[Head(resultCh).r].k = 0
          => UNCHANGED <<pending, pool, outbound, executions, quota, memory,
                         audits, rpc>>]_vars

\* the response to a request was taken off the channel before the consume
\* loop inserted the request's pending entry
C13_Witness ==
    /\ cpc.st = "sent" /\ cpc.live
    /\ sends[cpc.r] = 1 /\ ins[cpc.r] = 0
    /\ \A t \in atWorker : t.r # cpc.r
    /\ resultCh = <<>> /\ rpc.st = "idle"

\* -------------------------------------------------------------------
\* a worker's active_tasks is incremented
CountStep == \E w \in WorkerIds : pool'[w].active > pool[w].active

\* the task message of request r is Acked after a dispatch
AckStep(r) == tasks[r] = "inflight" /\ tasks'[r] = "acked"

SendFailed == cpc.st \notin {"idle", "tracked"} /\ sends[cpc.r] = ins[cpc.r]

\* C15: if sending the TaskRequest on the selected worker's stream fails,
\* the task message is Nak'd (it stays to be delivered again), no pending
\* entry is created for its request_id, the worker's active_tasks is
\* unchanged and no outbound message is published.
C15_SendErrorNaks ==
    [][/\ (cpc.st = "idle" /\ cpc'.st # "idle" /\ sends' = sends)
             => UNCHANGED <<tasks, pending, pool, outbound, atWorker, ins>>
       /\ (SendFailed /\ cpc' # cpc)
             => /\ cpc' = CIdle
                /\ tasks[cpc.r] \in {"ready", "nocap"}
                /\ UNCHANGED <<tasks, pending, pool, outbound, atWorker, ins>>]_vars

\* Send has returned an error for the delivery of a request, and the worker
\* it was to be sent to is free
C15_Witness ==
    /\ SendFailed
    /\ pool[cpc.w].on /\ pool[cpc.w].active = 0
    /\ pending[cpc.r].k = 0

\* -------------------------------------------------------------------
\* a stream registering with worker_id w gets RegisterAck accepted = false
RejectStep(w) == acks[w] # "rejected" /\ acks'[w] = "rejected"

\* C16: a registration with a worker_id that is already connected is
\* rejected with RegisterAck accepted = false, and only such a registration
\* is; the pool keeps the originally registered entry with its
\* max_concurrent and active_tasks, and the rejected stream neither
\* unregisters the original worker nor marks it offline: that happens only
\* once the accepted stream itself has ended.
C16_DuplicateRegistrationRejected ==
    [][\A w \in WorkerIds :
          /\ RejectStep(w)
                => /\ Connected(pool, w)
                   /\ UNCHANGED <<pool, workerRows, streams>>
          /\ (Connected(pool, w) /\ Connected(pool', w))
                => pool'[w].max = pool[w].max
          /\ (acks[w] # "accepted" /\ acks'[w] = "accepted")
                => ~Connected(pool, w)
          /\ (Connected(pool, w) /\ ~Connected(pool', w))
                => ~streams[w].up
          /\ (workerRows[w] # "offline" /\ workerRows'[w] = "offline")
                => ~streams[w].up]_vars

\* a second stream was rejected while the first one is open and has a task
C16_Witness ==
    \E w \in WorkerIds :
        /\ acks[w] = "rejected"
        /\ Connected(pool, w) /\ streams[w].up
        /\ workerRows[w] = "healthy"
        /\ pool[w].active = 1 /\ pool[w].max = 2

\* -------------------------------------------------------------------
\* C18: after a registered worker's stream has ended, the worker is
\* eventually removed from the pool, also when the handler of the stream
\* holds a response and the result channel is full; and a TaskRequest is
\* only ever sent to a worker that SelectWorker found in the pool, so never
\* to a removed one.
C18_EndedStreamUnregistered ==
    /\ \A w \in WorkerIds :
          (Connected(pool, w) /\ ~streams[w].up) ~> ~Connected(pool, w)
    /\ [][\A t \in atWorker' \ atWorker :
             Connected(pool, t.w) /\ t.w \in SelectWorker(pool)]_vars

\* the stream has ended while its handler holds a response that the full
\* result channel does not take
C18_Witness ==
    \E w \in WorkerIds :
        /\ Connected(pool, w) /\ ~streams[w].up
        /\ streams[w].hand # NoResp
        /\ Len(resultCh) = ResultChCap

\* -------------------------------------------------------------------
\* the load ratio of worker a is below 1.0: max_concurrent > 0 and
\* active_tasks / max_concurrent < 1
BelowOne(a) == a.max > 0 /\ a.active < a.max

\* C17: SelectWorker returns a connected worker whose load ratio
\* active_tasks / max_concurrent is minimal among the workers with ratio
\* below 1.0; a worker with ratio >= 1.0 or with max_concurrent <= 0 is never
\* returned; it returns none exactly when the pool is empty or every worker
\* is fully loaded.
C17_SelectWorkerLeastLoaded ==
    /\ \A w \in SelectWorker(pool) :
          /\ w \in DOMAIN pool /\ pool[w].on
          /\ BelowOne(pool[w])
          /\ \A v \in DOMAIN pool :
                (pool[v].on /\ BelowOne(pool[v]))
                   => pool[w].active * pool[v].max <= pool[v].active * pool[w].max
    /\ (SelectWorker(pool) = {})
          <=> (\A v \in DOMAIN pool : pool[v].on => ~BelowOne(pool[v]))

\* the selected worker has as many active tasks as another worker with
\* spare capacity, but a lower ratio; a third worker has max_concurrent <= 0
C17_Witness ==
    \E w, v, u \in DOMAIN pool :
        /\ SelectWorker(pool) = {w}
        /\ v # w /\ pool[v].on /\ BelowOne(pool[v])
        /\ pool[v].active = pool[w].active /\ pool[w].active > 0
        /\ pool[u].on /\ pool[u].max <= 0

\* -------------------------------------------------------------------
\* the orchestrator consumes inbound message m
OrchStep(m) == orch[m] = "queued" /\ orch'[m] # "queued"

\* the error reply of the orchestrator to inbound message m
OrchErrorReply(m, text) ==
    [ToJID |-> FromJid(m), FromJID |-> ToJid(m), Body |-> <<"Error: ", text>>,
     InReplyTo |-> m]

MessageRouted == [EventType |-> "message_routed", Severity |-> "info"]

\* C19: in the orchestrator a routing failure yields the outbound error
\* reply "Agent not found" and a validation failure yields "Message not
\* authorized", each addressed to the inbound's from_address with in_reply_to
\* = the inbound id; in both cases the inbound is Acked (it is consumed once
\* and for all) and neither a TaskMessage nor a message_routed audit event
\* is emitted.
C19_OrchestratorErrorReplies ==
    /\ [][\A m \in Requests :
             /\ (OrchStep(m) /\ agent = "deleted")
                   => /\ orch'[m] = "notfound"
                      /\ outbound' = outbound (+) SetToBag({OrchErrorReply(m, "Agent not found")})
                      /\ UNCHANGED <<tasks, audits>>
             /\ (OrchStep(m) /\ agent \in {"blocked", "domain"})
                   => /\ orch'[m] = "unauth"
                      /\ outbound' = outbound (+) SetToBag({OrchErrorReply(m, "Message not authorized")})
                      /\ UNCHANGED <<tasks, audits>>
             /\ orch[m] \in {"notfound", "unauth"}
                   => orch'[m] = orch[m] /\ tasks'[m] = "none"]_vars
    /\ [](\A m \in Requests : orch[m] \in {"notfound", "unauth"} => tasks[m] = "none")
    /\ [](CopiesIn(MessageRouted, audits)
             = Cardinality({m \in Requests : orch[m] = "routed"}))

\* one message was rejected by Route after the agent was soft-deleted, the
\* other had been routed before
C19_Witness ==
    \E m, n \in Requests :
        /\ orch[m] = "notfound" /\ orch[n] = "routed"
        /\ OrchErrorReply(m, "Agent not found") \in BagToSet(outbound)

\* -------------------------------------------------------------------
\* C20: a TaskMessage is emitted only for an inbound message for which both
\* Route and Validate succeeded (agent found and not soft-deleted, agent id
\* and owner id not nil, governance not blocked, domain allowed); it is
\* published on subject aiox.tasks.<agent_id> of the resolved agent, with
\* request_id = the inbound message id and owner_id = the resolved agent's
\* owner.
C20_TaskOnlyForRoutedAndValid ==
    /\ [](\A t \in BagToSet(published) :
             /\ t.Msg.RequestID \in Requests
             /\ orch[t.Msg.RequestID] = "routed"
             /\ t.Subject = <<"aiox.tasks", ".", AgentId>>
             /\ t.Msg.AgentID = AgentId /\ t.Msg.AgentID # ""
             /\ t.Msg.OwnerUserID = OwnerUserId /\ t.Msg.OwnerUserID # "")
    /\ [][published' # published
             => \E m \in Requests :
                   /\ OrchStep(m)
                   /\ agent \notin {"deleted", "blocked", "domain"}
                   /\ \E t \in BagToSet(published') :
                         /\ t.Msg.RequestID = m
                         /\ published' = published (+) SetToBag({t})]_vars

\* the task of one message was published before the agent was blocked, the
\* other message was rejected and has no task
C20_Witness ==
    \E m, n \in Requests :
        /\ orch[n] = "unauth"
        /\ \A t \in BagToSet(published) : t.Msg.RequestID = m
        /\ published # EmptyBag

\* -------------------------------------------------------------------
\* C21: for every task that goes from the orchestrator through the
\* dispatcher to a worker response or a timeout, the OutboundMessage the
\* dispatcher publishes has to = the from_address of the original inbound
\* message, from = the JID of the resolved agent and in_reply_to = the
\* inbound message id.
C21_DispatcherReplyAddresses ==
    \A r \in Requests :
        \A o \in TerminalReplies(r) :
            /\ o.ToJID = FromJid(r)
            /\ o.FromJID = RouteResult(ToJid(r)).AgentJID
            /\ o.InReplyTo = r

\* -------------------------------------------------------------------
\* the replies to m that the orchestrator published for a routed message
PlaceholderReplies(m) == {o \in Replies(m) : o.Body[1] = "["}

\* C22: for every inbound message that routes and validates, the
\* orchestrator itself publishes an OutboundMessage with to = the inbound's
\* from_address, from = the resolved agent's JID, in_reply_to = the inbound
\* id and a body containing the agent's name, and then Acks the inbound.
C22_OrchestratorPlaceholderReply ==
    /\ [][\A m \in Requests :
             (OrchStep(m) /\ agent = "ok")
                => /\ orch'[m] = "routed"
                   /\ \E o \in BagToSet(outbound') :
                         /\ outbound' = outbound (+) SetToBag({o})
                         /\ o.ToJID = FromJid(m)
                         /\ o.FromJID = RouteResult(ToJid(m)).AgentJID
                         /\ o.InReplyTo = m
                         /\ \E i \in DOMAIN o.Body :
                               o.Body[i] = RouteResult(ToJid(m)).AgentName]_vars
    /\ [](\A m \in Requests :
             orch[m] = "routed"
                => /\ PlaceholderReplies(m) # {}
                   /\ \A o \in PlaceholderReplies(m) :
                         /\ outbound[o] = 1
                         /\ o.ToJID = FromJid(m)
                         /\ o.FromJID = RouteResult(ToJid(m)).AgentJID)

\* both messages were routed and each has its own placeholder reply
C22_Witness ==
    /\ \A m \in Requests : orch[m] = "routed" /\ PlaceholderReplies(m) # {}
    /\ \E o \in PlaceholderReplies("m1"), q \in PlaceholderReplies("m2") :
          o.ToJID # q.ToJID

\* -------------------------------------------------------------------
\* the pipeline with an agent registry whose queries may fail
NextRegistry ==
    \/ AgentChange
    \/ \E m \in Requests, queryOK \in BOOLEAN : ProcessMessageLookup(m, queryOK)
    \/ \E w \in WorkerIds, mc \in RegMaxConcurrent : Register(w, mc)
    \/ \E t \in atWorker, err \in BOOLEAN : WorkerRespond(t, err)
    \/ \E r \in Requests : HandleTaskDispatch(r)
    \/ HandleTaskTrack
    \/ HandleResultTake
    \/ HandleResultFinish

SpecRegistry == Init /\ [][NextRegistry]_vars

\* the "Agent not found" replies in the outbound subject
AgentNotFoundReplies ==
    {o \in BagToSet(outbound) : o.Body = <<"Error: ", "Agent not found">>}

\* C23: a transient failure of the agent registry (database unavailable)
\* while the orchestrator routes an inbound message or while the dispatcher
\* fetches the agent results in a Nak of the consumed bus message and in no
\* outbound message to the user; an "Agent not found" reply is produced
\* only when the lookup succeeds and finds no agent.
C23_NotFoundOnlyWhenAgentMissing ==
    /\ [](AgentNotFoundReplies # {} => agent = "deleted")
    /\ [](\A m \in Requests : orch[m] = "notfound" => agent = "deleted")
    /\ [][\A m \in Requests :
             (OrchStep(m) /\ agent # "deleted") => orch'[m] # "notfound"]_vars

\* -------------------------------------------------------------------
\* ----------------------------------------------------------- quota engine
\* Redis ZREMRANGEBYSCORE key -inf max: the entries with score <= max go
ZRemRangeByScore(z, max) == [m \in {x \in DOMAIN z : z[x] > max} |-> z[m]]

\* Redis ZCARD
ZCard(z) == Cardinality(DOMAIN z)

\* Redis ZADD of one member: a member already in the set only gets the score
ZAdd(z, member, score) ==
    [m \in DOMAIN z \cup {member} |-> IF m = member THEN score ELSE z[m]]

\* the member CheckAndIncrement adds: fmt.Sprintf("%d:%d", now.UnixNano(), count)
Member(nano, count) == <<nano, ":", count>>

\* a limiter that lets every call through: a faulty variant
OverLimitNever(count, maxPerMinute) == FALSE

\* CheckAndIncrement: the test on the count of the window
OverLimit(count, maxPerMinute) == count >= maxPerMinute

\* Repository.RecordViolation: an UPDATE that appends to the violations of
\* the user's row; without a row it changes nothing and reports no error
RecordViolation(q, violation) ==
    IF q.row THEN [q EXCEPT !.violations = Append(@, violation)] ELSE q

\* Repository.GetOrCreate: INSERT ... ON CONFLICT DO NOTHING, then SELECT
GetOrCreate(q) == [q EXCEPT !.row = TRUE]

\* daily limits tested in the opposite order: a faulty variant
DailyLimitRequestsFirst(q) ==
    IF q.requests_today >= MaxRequestsPerDay THEN "daily_request_limit"
    ELSE IF q.tokens_used_today >= MaxTokensPerDay THEN "daily_token_limit"
    ELSE "allowed"

\* CheckQuota, the tests on the row GetOrCreate returned
DailyLimit(q) ==
    IF q.tokens_used_today >= MaxTokensPerDay THEN "daily_token_limit"
    ELSE IF q.requests_today >= MaxRequestsPerDay THEN "daily_request_limit"
    ELSE "allowed"

\* a rate check that denies when the key-value store fails: a faulty variant
AfterRateErrorDeny == "idle"

\* CheckQuota after an error of CheckAndIncrement: it logs and goes on to
\* the daily limits
AfterRateError == "daily"

\* CheckQuota up to the first pipeline of CheckAndIncrement (clean + count).
\* time.Now() is read once; two calls never read the same nanosecond
CheckQuotaCount(c, redisOK) ==
    /\ checks[c].pc = "idle"
    /\ clock.n < MaxChecks
    /\ clock' = [clock EXCEPT !.n = @ + 1]
    /\ IF ~redisOK
       THEN /\ checks' = [checks EXCEPT ![c] =
                            [pc |-> AfterRateError, now |-> clock.t, nano |-> clock.n,
                             count |-> 0, rate |-> "error", db |-> "",
                             res |-> IF AfterRateError = "idle"
                                     THEN "rate_limit_minute" ELSE ""]]
            /\ UNCHANGED <<window, quota>>
       ELSE /\ window' = ZRemRangeByScore(window, clock.t - WindowDuration)
            /\ IF OverLimit(ZCard(window'), MaxPerMinute)
               THEN /\ quota' = RecordViolation(quota, "rate_limit_minute")
                    /\ checks' = [checks EXCEPT ![c] =
                                    [NoCheck EXCEPT !.rate = "denied",
                                                    !.res = "rate_limit_minute"]]
               ELSE /\ checks' = [checks EXCEPT ![c] =
                                    [pc |-> "add", now |-> clock.t, nano |-> clock.n,
                                     count |-> ZCard(window'), rate |-> "", db |-> "",
                                     res |-> ""]]
                    /\ UNCHANGED quota
    /\ UNCHANGED <<windowTTL, grants>>
    /\ UNCHANGED memVars
    /\ UNCHANGED sideVars
    /\ UNCHANGED streamVars
    /\ UNCHANGED published
    /\ UNCHANGED <<agent, busUp, orch, tasks, redeliv, pool, atWorker, resultCh,
                   pending, cpc, rpc, epc, outbound, executions, audits,
                   memory, sends, ins, term>>

\* CheckAndIncrement, the second pipeline (add + expire), and its return
CheckQuotaAdd(c, redisOK) ==
    /\ checks[c].pc = "add"
    /\ IF redisOK
       THEN /\ window' = ZAdd(window, Member(checks[c].nano, checks[c].count),
                              checks[c].now)
            /\ windowTTL' = clock.t + KeyTTL
            /\ grants' = [grants EXCEPT ![checks[c].now] = @ + 1]
            /\ checks' = [checks EXCEPT ![c].pc = "daily", ![c].rate = "allowed"]
       ELSE /\ checks' = [checks EXCEPT ![c].pc = AfterRateError, ![c].rate = "error",
                                        ![c].res = IF AfterRateError = "idle"
                                                   THEN "rate_limit_minute" ELSE ""]
            /\ UNCHANGED <<window, windowTTL, grants>>
    /\ UNCHANGED <<clock, quota>>
    /\ UNCHANGED memVars
    /\ UNCHANGED sideVars
    /\ UNCHANGED streamVars
    /\ UNCHANGED published
    /\ UNCHANGED <<agent, busUp, orch, tasks, redeliv, pool, atWorker, resultCh,
                   pending, cpc, rpc, epc, outbound, executions, audits,
                   memory, sends, ins, term>>

\* CheckQuota, the daily limits: ResetDailyIfStale, GetOrCreate and the
\* tests on the row; an error of the database lets the request through
CheckQuotaDaily(c, dbOK) ==
    /\ checks[c].pc = "daily"
    /\ IF ~dbOK
       THEN /\ checks' = [checks EXCEPT ![c] =
                            [NoCheck EXCEPT !.rate = checks[c].rate, !.db = "error",
                                            !.res = "allowed"]]
            /\ UNCHANGED <<quota, day>>
       ELSE LET q == GetOrCreate(ResetDailyIfStale(quota, day.stale))
            IN  /\ checks' = [checks EXCEPT ![c] =
                                 [NoCheck EXCEPT !.rate = checks[c].rate, !.db = "ok",
                                                 !.res = DailyLimit(q)]]
                /\ quota' = IF DailyLimit(q) = "allowed"
                            THEN q
                            ELSE RecordViolation(q, DailyLimit(q))
                /\ day' = DayAfterReset(day)
    /\ UNCHANGED <<clock, window, windowTTL, grants>>
    /\ UNCHANGED memVars
    /\ UNCHANGED <<turnVars, lifeVars, readVars, gateVars, taskMeta>>
    /\ UNCHANGED streamVars
    /\ UNCHANGED published
    /\ UNCHANGED <<agent, busUp, orch, tasks, redeliv, pool, atWorker, resultCh,
                   pending, cpc, rpc, epc, outbound, executions, audits,
                   memory, sends, ins, term>>

\* tokens one DeductTokens call may add
DeductAmounts == {1, RespTokens}

\* Service.DeductTokens for a completed response of the owner
QuotaDeduct(tokens) ==
    /\ quota.tokens_used_today < MaxTokensPerDay
    /\ quota' = DeductTokens(quota, "completed", tokens)
    /\ quota' # quota
    /\ day' = [day EXCEPT !.ideal = IdealDeduct(@, tokens)]
    /\ UNCHANGED <<limiterVars, memVars, turnVars, lifeVars, readVars, gateVars,
                   taskMeta>>
    /\ UNCHANGED streamVars
    /\ UNCHANGED published
    /\ UNCHANGED <<agent, busUp, orch, tasks, redeliv, pool, atWorker, resultCh,
                   pending, cpc, rpc, epc, outbound, executions, audits,
                   memory, sends, ins, term>>

\* time passes; Redis drops the key of the window when its TTL is over
ClockTick ==
    /\ clock.t < MaxClock
    /\ clock' = [clock EXCEPT !.t = @ + 1]
    /\ window' = IF window # <<>> /\ windowTTL <= clock.t + 1 THEN <<>> ELSE window
    /\ UNCHANGED <<windowTTL, checks, grants, quota>>
    /\ UNCHANGED memVars
    /\ UNCHANGED sideVars
    /\ UNCHANGED streamVars
    /\ UNCHANGED published
    /\ UNCHANGED <<agent, busUp, orch, tasks, redeliv, pool, atWorker, resultCh,
                   pending, cpc, rpc, epc, outbound, executions, audits,
                   memory, sends, ins, term>>

\* the quota engine alone, called by concurrent goroutines for one owner who
\* starts without a user_quotas row
NextQuota ==
    \/ ClockTick
    \/ \E tokens \in DeductAmounts : QuotaDeduct(tokens)
    \/ \E c \in Callers, redisOK \in BOOLEAN : CheckQuotaCount(c, redisOK)
    \/ \E c \in Callers, redisOK \in BOOLEAN : CheckQuotaAdd(c, redisOK)
    \/ \E c \in Callers, dbOK \in BOOLEAN : CheckQuotaDaily(c, dbOK)

SpecQuota == InitFreshOwner /\ [][NextQuota]_vars

\* -------------------------------------------------------------------
\* an owner who has used up the day's tokens with one earlier request
InitOverQuota ==
    /\ InitPipeline
    /\ quota = [row |-> TRUE, tokens_used_today |-> MaxTokensPerDay,
                requests_today |-> 1, violations |-> <<>>]

\* the pipeline without redelivery, disconnects and timeouts
NextOverQuota ==
    \/ \E m \in Requests : ProcessMessage(m)
    \/ \E w \in WorkerIds, mc \in RegMaxConcurrent : Register(w, mc)
    \/ \E t \in atWorker, err \in BOOLEAN : WorkerRespond(t, err)
    \/ \E r \in Requests : HandleTaskDispatch(r)
    \/ HandleTaskTrack
    \/ HandleResultTake
    \/ HandleResultFinish

SpecOverQuota == InitOverQuota /\ [][NextOverQuota]_vars

\* what CheckQuota would answer for the owner now: the rate limit on the
\* window, then the daily limits on the row
QuotaVerdict ==
    IF OverLimit(ZCard(ZRemRangeByScore(window, clock.t - WindowDuration)), MaxPerMinute)
    THEN "rate_limit_minute"
    ELSE DailyLimit(GetOrCreate(quota))

\* C24: a request whose owner is denied by the Quota Engine (per-minute
\* rate, daily tokens or daily requests exceeded) is refused before any
\* worker send: no TaskRequest for that request is ever sent to a worker.
C24_DeniedOwnerNeverSent ==
    \A r \in Requests : QuotaVerdict # "allowed" => sends[r] = 0

\* -------------------------------------------------------------------
\* the calls that returned allowed with their time.Now() in the window
\* that starts at t and lasts WindowDuration
GrantsInWindow(t) ==
    LET Sum[i \in 0..WindowDuration] ==
            IF i = 0 THEN 0
            ELSE Sum[i - 1] + (IF t + i - 1 \in DOMAIN grants
                               THEN grants[t + i - 1] ELSE 0)
    IN  Sum[WindowDuration]

\* C25: for any user and any 60-second window, the number of
\* CheckAndIncrement calls that return allowed is at most max_per_minute,
\* also when several checks for the same user run concurrently (the
\* clean-count step and the add step of different calls interleaved).
C25_AllowedWithinMaxPerMinute ==
    \A t \in 0..MaxClock : GrantsInWindow(t) <= MaxPerMinute

\* -------------------------------------------------------------------
\* caller c's CheckQuota call returns in this step
CheckReturns(c) == checks'[c] # checks[c] /\ checks'[c].pc = "idle"

\* C26: CheckQuota applies the checks in the order per-minute rate, daily
\* tokens, daily requests and denies at the first one that fails; every
\* denial appends exactly one violation entry of the matching type to the
\* user's violations, for any user whether or not a quota row existed
\* before the check.
C26_DenialOrderAndViolation ==
    [][\A c \in Callers :
          CheckReturns(c)
             => /\ checks'[c].res \in {"rate_limit_minute", "daily_token_limit",
                                       "daily_request_limit"}
                   => quota'.violations = Append(quota.violations, checks'[c].res)
                /\ checks'[c].res = "allowed" => quota'.violations = quota.violations
                /\ checks'[c].res = "rate_limit_minute" => checks[c].pc = "idle"
                /\ checks'[c].res = "daily_token_limit"
                   => /\ checks[c].pc = "daily"
                      /\ quota'.tokens_used_today >= MaxTokensPerDay
                /\ checks'[c].res = "daily_request_limit"
                   => /\ checks[c].pc = "daily"
                      /\ quota'.tokens_used_today < MaxTokensPerDay
                      /\ quota'.requests_today >= MaxRequestsPerDay]_vars

\* -------------------------------------------------------------------
\* the key-value store fails in this step of caller c's rate check
RateCheckFails(c) == checks[c].rate # "error" /\ checks'[c].rate = "error"

\* C27: when the key-value store fails during the per-minute rate check,
\* CheckQuota treats the rate check as passed (fails open), records no
\* violation for it, and still applies the daily token and daily request
\* limits from the durable row.
C27_RateCheckFailsOpen ==
    [][\A c \in Callers :
          /\ RateCheckFails(c)
                => /\ checks'[c].pc = "daily"
                   /\ checks'[c].res = ""
                   /\ quota' = quota
                   /\ window' = window /\ grants' = grants
          /\ (checks[c].pc = "daily" /\ checks[c].rate = "error" /\ CheckReturns(c)
                /\ checks'[c].db = "ok")
                => /\ quota'.row
                   /\ quota'.tokens_used_today = quota.tokens_used_today
                   /\ quota'.requests_today = quota.requests_today
                   /\ quota.tokens_used_today >= MaxTokensPerDay
                         => /\ checks'[c].res = "daily_token_limit"
                            /\ quota'.violations
                                  = Append(quota.violations, "daily_token_limit")
                   /\ (quota.tokens_used_today < MaxTokensPerDay
                          /\ quota.requests_today >= MaxRequestsPerDay)
                         => /\ checks'[c].res = "daily_request_limit"
                            /\ quota'.violations
                                  = Append(quota.violations, "daily_request_limit")
                   /\ (quota.tokens_used_today < MaxTokensPerDay
                          /\ quota.requests_today < MaxRequestsPerDay)
                         => /\ checks'[c].res = "allowed"
                            /\ quota'.violations = quota.violations]_vars

\* the key-value store failed while the window was full, and the call was
\* then denied on the daily tokens of the row, the only violation recorded
C27_Witness ==
    \E c \in Callers :
        /\ checks[c].pc = "idle"
        /\ checks[c].rate = "error"
        /\ checks[c].res = "daily_token_limit"
        /\ ZCard(window) >= MaxPerMinute
        /\ quota.violations = <<"daily_token_limit">>

\* -------------------------------------------------------------------
\* ------------------------------------------------------- long-term memory
MemoryOwners == {"o1", "o2"}
MemoryAgents == {"a1", "a2"}
\* embeddings; "null" is a row stored without one
Embeddings == {"e1", "e2"}
\* rows in agent_memories at most; LIMIT and threshold values of a search
MaxRows == 3
SearchLimits == {1, 2}
\* similarities are in tenths: 7 is the default threshold 0.7
SearchThresholds == {7, 10}

\* 1 - (embedding <=> q), the cosine similarity: 1 for the same direction;
\* different embeddings of the model are orthogonal
Similarity(e, q) == IF e = q THEN 10 ELSE 0

\* a search that filters on the agent only: a faulty variant
SearchFilterAgentOnly(row, agentID, ownerUserID) == row.agent_id = agentID

\* SearchSimilar: WHERE agent_id = $2 AND owner_user_id = $3
SearchFilter(row, agentID, ownerUserID) ==
    row.agent_id = agentID /\ row.owner_user_id = ownerUserID

\* SearchSimilar: the rows the WHERE clause lets through
SearchMatches(rows, agentID, ownerUserID, embedding, threshold) ==
    {row \in rows : /\ SearchFilter(row, agentID, ownerUserID)
                    /\ row.embedding # "null"
                    /\ Similarity(row.embedding, embedding) >= threshold}

\* SearchSimilar: ORDER BY distance LIMIT $5 - the result sets the query can
\* return (rows at the same distance come in any order)
SearchSimilar(rows, agentID, ownerUserID, embedding, limit, threshold) ==
    LET matches == SearchMatches(rows, agentID, ownerUserID, embedding, threshold)
        n == IF Cardinality(matches) < limit THEN Cardinality(matches) ELSE limit
    IN  {res \in SUBSET matches :
            /\ Cardinality(res) = n
            /\ \A in \in res, out \in matches \ res :
                  Similarity(in.embedding, embedding)
                     >= Similarity(out.embedding, embedding)}

\* Repository.Create (Service.Create, Service.StoreLongTermMemory): one row
\* with a fresh id
MemoryCreate(ownerUserID, agentID, embedding) ==
    /\ Cardinality(ltm) < MaxRows
    /\ ltm' = ltm \cup {[id |-> Cardinality(ltm) + 1, owner_user_id |-> ownerUserID,
                         agent_id |-> agentID, embedding |-> embedding]}
    /\ UNCHANGED <<search, rings, appended, stmOp, shortTermMax>>
    /\ UNCHANGED limiterVars
    /\ UNCHANGED sideVars
    /\ UNCHANGED streamVars
    /\ UNCHANGED published
    /\ UNCHANGED <<agent, busUp, orch, tasks, redeliv, pool, atWorker, resultCh,
                   pending, cpc, rpc, epc, outbound, executions, audits, quota,
                   memory, sends, ins, term>>

\* Service.Search / Service.GetConversationContext with a query embedding:
\* a similarity search for (agent, owner)
MemorySearch(agentID, ownerUserID, embedding, limit, threshold) ==
    /\ \E res \in SearchSimilar(ltm, agentID, ownerUserID, embedding, limit, threshold) :
          search' = [agent |-> agentID, owner |-> ownerUserID, rows |-> res]
    /\ UNCHANGED <<ltm, rings, appended, stmOp, shortTermMax>>
    /\ UNCHANGED limiterVars
    /\ UNCHANGED sideVars
    /\ UNCHANGED streamVars
    /\ UNCHANGED published
    /\ UNCHANGED <<agent, busUp, orch, tasks, redeliv, pool, atWorker, resultCh,
                   pending, cpc, rpc, epc, outbound, executions, audits, quota,
                   memory, sends, ins, term>>

\* the long-term store alone, written and searched for several tenants
NextLongTerm ==
    \/ \E o \in MemoryOwners, a \in MemoryAgents, e \in Embeddings \cup {"null"} :
          MemoryCreate(o, a, e)
    \/ \E a \in MemoryAgents, o \in MemoryOwners, e \in Embeddings,
          l \in SearchLimits, th \in SearchThresholds :
          MemorySearch(a, o, e, l, th)

SpecLongTerm == Init /\ [][NextLongTerm]_vars

\* C28: every long-term memory row returned by a similarity search made for
\* (owner O, agent A) has owner_id = O and agent_id = A: a row created
\* under another owner or another agent is never returned, even when its
\* embedding is identical to the query.
C28_SearchReturnsOwnRowsOnly ==
    \A row \in search.rows :
        /\ row \in ltm
        /\ row.owner_user_id = search.owner
        /\ row.agent_id = search.agent

\* a search returned a row while rows with the same embedding exist under
\* another owner of the same agent and under another agent of the same owner
C28_Witness ==
    \E row \in search.rows, other \in ltm, third \in ltm :
        /\ other.embedding = row.embedding /\ third.embedding = row.embedding
        /\ other.agent_id = row.agent_id /\ other.owner_user_id # row.owner_user_id
        /\ third.agent_id # row.agent_id /\ third.owner_user_id = row.owner_user_id

\* -------------------------------------------------------------------
\* ------------------------------------------------------ short-term memory
\* MaxShortTermMsgs values of a memory_config (ParseConfig takes any integer)
ShortTermMaxValues == {-1, 0, 1, 2, 3}
\* entries appended at most, over all rings
MaxAppends == 4
\* the ConversationEntry values of a turn
RingEntries == {[Role |-> "user", Content |-> "A"],
                [Role |-> "assistant", Content |-> "B"]}
\* limits GetRecentMessages is called with
RecentLimits == {1, 2, MaxAppends}

\* json.Marshal of a ConversationEntry and json.Unmarshal of the string
Marshal(entry) == <<"{", entry.Role, ",", entry.Content, "}">>
Unmarshal(v) == [Role |-> v[2], Content |-> v[4]]

\* Redis RPUSH
RPush(l, v) == Append(l, v)

\* Redis LRANGE: negative indexes count from the tail, the range is cut to
\* the list, an empty range gives the empty list
LRange(l, start, stop) ==
    LET n == Len(l)
        s0 == IF start < 0 THEN n + start ELSE start
        s == IF s0 < 0 THEN 0 ELSE s0
        e0 == IF stop < 0 THEN n + stop ELSE stop
        e == IF e0 >= n THEN n - 1 ELSE e0
    IN  IF s > e \/ s >= n THEN <<>> ELSE SubSeq(l, s + 1, e + 1)

\* Redis LTRIM: the list becomes the range LRANGE would return
LTrim(l, start, stop) == LRange(l, start, stop)

\* ShortTermStore.GetRecentMessages
GetRecentMessages(agentID, userJID, limit) ==
    LET vals == LRange(rings[convKey(agentID, userJID)], -limit, -1)
    IN  [i \in 1..Len(vals) |-> Unmarshal(vals[i])]

\* the entries appended so far, over all rings
Appends ==
    LET Sum[ps \in SUBSET RingPairs] ==
            IF ps = {} THEN 0
            ELSE LET p == CHOOSE x \in ps : TRUE
                 IN  Len(appended[p]) + Sum[ps \ {p}]
    IN  Sum[RingPairs]

\* ShortTermStore.AppendMessage, its effect on the store: RPUSH,
\* LTRIM -maxMsgs -1, EXPIRE in one pipeline
RingAppend(agentID, userJID, entry, maxMsgs) ==
    /\ rings' = [rings EXCEPT ![convKey(agentID, userJID)] =
                    LTrim(RPush(@, Marshal(entry)), -maxMsgs, -1)]
    /\ appended' = [appended EXCEPT ![<<agentID, userJID>>] = Append(@, entry)]
    /\ stmOp' = [op |-> "append", agent |-> agentID, user |-> userJID]

\* ShortTermStore.AppendMessage called on its own
AppendMessage(agentID, userJID, entry, maxMsgs) ==
    /\ Appends < MaxAppends
    /\ RingAppend(agentID, userJID, entry, maxMsgs)
    /\ UNCHANGED <<ltm, search, shortTermMax>>
    /\ UNCHANGED limiterVars
    /\ UNCHANGED sideVars
    /\ UNCHANGED streamVars
    /\ UNCHANGED published
    /\ UNCHANGED <<agent, busUp, orch, tasks, redeliv, pool, atWorker, resultCh,
                   pending, cpc, rpc, epc, outbound, executions, audits, quota,
                   memory, sends, ins, term>>

\* ShortTermStore.ClearConversation: DEL of the key
ClearConversation(agentID, userJID) ==
    /\ appended[<<agentID, userJID>>] # <<>>
    /\ rings' = [rings EXCEPT ![convKey(agentID, userJID)] = <<>>]
    /\ appended' = [appended EXCEPT ![<<agentID, userJID>>] = <<>>]
    /\ stmOp' = [op |-> "clear", agent |-> agentID, user |-> userJID]
    /\ UNCHANGED <<ltm, search, shortTermMax>>
    /\ UNCHANGED limiterVars
    /\ UNCHANGED sideVars
    /\ UNCHANGED streamVars
    /\ UNCHANGED published
    /\ UNCHANGED <<agent, busUp, orch, tasks, redeliv, pool, atWorker, resultCh,
                   pending, cpc, rpc, epc, outbound, executions, audits, quota,
                   memory, sends, ins, term>>

\* Redis drops a key whose TTL (the EXPIRE of the last append) has run out
RingExpire(agentID, userJID) ==
    /\ rings[convKey(agentID, userJID)] # <<>>
    /\ rings' = [rings EXCEPT ![convKey(agentID, userJID)] = <<>>]
    /\ appended' = [appended EXCEPT ![<<agentID, userJID>>] = <<>>]
    /\ stmOp' = [op |-> "expire", agent |-> agentID, user |-> userJID]
    /\ UNCHANGED <<ltm, search, shortTermMax>>
    /\ UNCHANGED limiterVars
    /\ UNCHANGED sideVars
    /\ UNCHANGED streamVars
    /\ UNCHANGED published
    /\ UNCHANGED <<agent, busUp, orch, tasks, redeliv, pool, atWorker, resultCh,
                   pending, cpc, rpc, epc, outbound, executions, audits, quota,
                   memory, sends, ins, term>>

\* the short-term store alone; every agent carries the same maximum
InitRing ==
    /\ InitDispatcher
    /\ taskMeta = [m \in Requests |-> DefaultMeta]
    /\ agentRow = DefaultAgentRow
    /\ agent = "ok"
    /\ pool = [w \in WorkerIds |-> NoWorker]
    /\ quota = [row |-> TRUE, tokens_used_today |-> 0, requests_today |-> 0,
                violations |-> <<>>]
    /\ shortTermMax \in ShortTermMaxValues

NextRing ==
    \/ \E p \in RingPairs, entry \in RingEntries :
          AppendMessage(p[1], p[2], entry, shortTermMax)
    \/ \E p \in RingPairs : ClearConversation(p[1], p[2])
    \/ \E p \in RingPairs : RingExpire(p[1], p[2])

SpecRing == InitRing /\ [][NextRing]_vars

\* the last n elements of a sequence
LastN(l, n) ==
    IF n <= 0 THEN <<>>
    ELSE IF Len(l) <= n THEN l ELSE SubSeq(l, Len(l) - n + 1, Len(l))

\* C29: after any sequence of AppendMessage calls on one (agent, user) key
\* with maximum m, the ring holds at most m entries and they are the most
\* recently appended ones in append order, for every value of m an agent's
\* memory policy can carry.
C29_RingHoldsLastMax ==
    \A p \in RingPairs :
        /\ Len(rings[convKey(p[1], p[2])]) <= (IF shortTermMax < 0 THEN 0 ELSE shortTermMax)
        /\ GetRecentMessages(p[1], p[2], MaxAppends) = LastN(appended[p], shortTermMax)

\* -------------------------------------------------------------------
\* the (agent, user) pair of the last short-term operation
OpPair == <<stmOp.agent, stmOp.user>>

\* C30: short-term rings are isolated per (agent id, user address): an
\* append or clear on one pair never changes the entries returned by
\* GetRecentMessages for any other pair, whether the other pair differs in
\* the agent, in the user, or in both.
C30_RingsIsolatedPerPair ==
    [][rings' # rings
          => /\ stmOp'.op \in {"append", "clear", "expire"}
             /\ \A q \in RingPairs \ {OpPair'} : \A l \in RecentLimits :
                   GetRecentMessages(q[1], q[2], l)' = GetRecentMessages(q[1], q[2], l)]_vars

\* one ring was cleared after entries had been appended to it, and the
\* rings of the pairs with the other agent, with the other user and with
\* both still return their entries
C30_Witness ==
    /\ stmOp.op = "clear"
    /\ GetRecentMessages(OpPair[1], OpPair[2], MaxAppends) = <<>>
    /\ \A q \in RingPairs \ {OpPair} :
          /\ GetRecentMessages(q[1], q[2], MaxAppends) # <<>>
          /\ GetRecentMessages(q[1], q[2], MaxAppends) = appended[q]

\* -------------------------------------------------------------------
\* ------------------------------------------------------ conversation turn
\* the (agent, user) pair of the conversation the requests belong to
TurnAgent == <<"a", "1">>
TurnUser == <<"u">>

\* the entries StoreConversationTurn builds for request r: the user message
\* and the response text of r
UserEntry(r) == [Role |-> "user", Content |-> r]
AssistantEntry(r) == [Role |-> "assistant", Content |-> <<RespText, r>>]

\* StoreConversationTurn for the completed response of r, up to the first
\* AppendMessage (the user entry); an error of the store ends the call
StoreTurnUser(r, ok) ==
    /\ turn.pc = "idle"
    /\ r \notin turn.stored
    /\ IF ok
       THEN /\ RingAppend(TurnAgent, TurnUser, UserEntry(r), shortTermMax)
            /\ turn' = [pc |-> "assistant", r |-> r, stored |-> turn.stored \cup {r}]
       ELSE /\ turn' = [turn EXCEPT !.stored = @ \cup {r}]
            /\ UNCHANGED <<rings, appended, stmOp>>
    /\ UNCHANGED <<ltm, search, shortTermMax, observed>>
    /\ UNCHANGED <<lifeVars, restVars>>
    /\ UNCHANGED limiterVars
    /\ UNCHANGED streamVars
    /\ UNCHANGED published
    /\ UNCHANGED <<agent, busUp, orch, tasks, redeliv, pool, atWorker, resultCh,
                   pending, cpc, rpc, epc, outbound, executions, audits, quota,
                   memory, sends, ins, term>>

\* StoreConversationTurn, the second AppendMessage (the assistant entry)
StoreTurnAssistant(ok) ==
    /\ turn.pc = "assistant"
    /\ IF ok
       THEN RingAppend(TurnAgent, TurnUser, AssistantEntry(turn.r), shortTermMax)
       ELSE UNCHANGED <<rings, appended, stmOp>>
    /\ turn' = [turn EXCEPT !.pc = "idle", !.r = ""]
    /\ UNCHANGED <<ltm, search, shortTermMax, observed>>
    /\ UNCHANGED <<lifeVars, restVars>>
    /\ UNCHANGED limiterVars
    /\ UNCHANGED streamVars
    /\ UNCHANGED published
    /\ UNCHANGED <<agent, busUp, orch, tasks, redeliv, pool, atWorker, resultCh,
                   pending, cpc, rpc, epc, outbound, executions, audits, quota,
                   memory, sends, ins, term>>

\* GetConversationContext in handleTask (the consume loop): the short-term
\* read of the conversation
ContextRead ==
    /\ observed' = GetRecentMessages(TurnAgent, TurnUser, shortTermMax)
    /\ observed' # observed
    /\ UNCHANGED <<ltm, search, rings, appended, stmOp, shortTermMax, turn>>
    /\ UNCHANGED <<lifeVars, restVars>>
    /\ UNCHANGED limiterVars
    /\ UNCHANGED streamVars
    /\ UNCHANGED published
    /\ UNCHANGED <<agent, busUp, orch, tasks, redeliv, pool, atWorker, resultCh,
                   pending, cpc, rpc, epc, outbound, executions, audits, quota,
                   memory, sends, ins, term>>

\* the result loop storing the turns of completed responses while the
\* consume loop reads the conversation
NextTurn ==
    \/ \E r \in Requests, ok \in BOOLEAN : StoreTurnUser(r, ok)
    \/ \E ok \in BOOLEAN : StoreTurnAssistant(ok)
    \/ ContextRead

SpecTurn == Init /\ [][NextTurn]_vars

\* in the sequence of entries l the user turn of r is followed directly by
\* the assistant turn of r
TurnComplete(l, r) ==
    \A i \in 1..Len(l) :
        l[i] = UserEntry(r) => (i < Len(l) /\ l[i + 1] = AssistantEntry(r))

\* C31: after a completed response with short-term memory enabled, the user
\* turn and the assistant turn of that task are appended atomically: no
\* concurrent reader (the dispatch-time memory read) and no store failure
\* ever leaves or observes the ring with the task's user turn but without
\* its assistant turn, and the two turns are adjacent in the order user,
\* assistant.
C31_TurnAppendedAtomically ==
    \A r \in Requests :
        /\ TurnComplete(observed, r)
        /\ turn.pc = "idle"
              => TurnComplete(GetRecentMessages(TurnAgent, TurnUser, shortTermMax), r)

\* -------------------------------------------------------------------
\* ------------------------------------------------- start and shutdown
\* the frame of the steps of main and of the loops
LifeFrame ==
    /\ UNCHANGED <<limiterVars, memVars, turnVars, restVars>>
    /\ UNCHANGED streamVars
    /\ UNCHANGED published
    /\ UNCHANGED <<agent, busUp, orch, tasks, redeliv, pool, atWorker, resultCh,
                   pending, cpc, rpc, epc, outbound, executions, audits, quota,
                   memory, sends, ins, term>>

\* a variant of ctx.Err() != nil that never sees the cancellation
CtxErrNever == FALSE

\* ctx.Err() != nil
CtxErr == cancelled

\* main: the HTTP server returned (shutdown signal), cancel()
Cancel ==
    /\ shutdown = "serving"
    /\ cancelled' = TRUE
    /\ shutdown' = "cancelled"
    /\ UNCHANGED <<loops, closed>>
    /\ LifeFrame

\* a fetch loop: consumer.Fetch returns, with an error (err) or with a batch
\* (which a fetch timeout leaves empty)
Fetch(l, err) ==
    /\ l \in FetchLoops
    /\ loops[l] = "running"
    /\ loops' = [loops EXCEPT ![l] = IF err THEN "error" ELSE "batch"]
    /\ UNCHANGED <<cancelled, shutdown, closed>>
    /\ LifeFrame

\* a fetch loop after Fetch returned an error: return nil if the context is
\* done, else continue
FetchFailed(l) ==
    /\ l \in FetchLoops
    /\ loops[l] = "error"
    /\ loops' = [loops EXCEPT ![l] = IF CtxErr THEN "returned" ELSE "running"]
    /\ UNCHANGED <<cancelled, shutdown, closed>>
    /\ LifeFrame

\* a fetch loop after the messages of the batch have been handled: return
\* if the context is done, else fetch again
BatchHandled(l) ==
    /\ l \in FetchLoops
    /\ loops[l] = "batch"
    /\ loops' = [loops EXCEPT ![l] = IF CtxErr THEN "returned" ELSE "running"]
    /\ UNCHANGED <<cancelled, shutdown, closed>>
    /\ LifeFrame

\* processResults / cleanupTimeouts: the select takes case <-ctx.Done()
SelectDone(l) ==
    /\ l \in SelectLoops
    /\ loops[l] = "running"
    /\ cancelled
    /\ loops' = [loops EXCEPT ![l] = "returned"]
    /\ UNCHANGED <<cancelled, shutdown, closed>>
    /\ LifeFrame

\* processResults / cleanupTimeouts: the select takes the other case (a
\* response on the channel, a tick) and its handler runs
SelectWork(l) ==
    /\ l \in SelectLoops
    /\ loops[l] = "running"
    /\ loops' = [loops EXCEPT ![l] = "handling"]
    /\ UNCHANGED <<cancelled, shutdown, closed>>
    /\ LifeFrame

\* handleResult / expireStale returns; back to the select
SelectHandled(l) ==
    /\ l \in SelectLoops
    /\ loops[l] = "handling"
    /\ loops' = [loops EXCEPT ![l] = "running"]
    /\ UNCHANGED <<cancelled, shutdown, closed>>
    /\ LifeFrame

\* Dispatcher.Start: wg.Wait() returns, return nil
DispatcherStartReturn ==
    /\ loops["dispatcher"] = "running"
    /\ \A l \in DispatcherLoops : loops[l] = "returned"
    /\ loops' = [loops EXCEPT !["dispatcher"] = "returned"]
    /\ UNCHANGED <<cancelled, shutdown, closed>>
    /\ LifeFrame

\* a worker opens a stream: the stream server accepts streams until
\* GracefulStop is called
StreamOpen(w, mc) ==
    /\ shutdown \in {"serving", "cancelled"}
    /\ TaskStreamOpen(w, mc)

\* main: grpcSrv.GracefulStop() is called: the listener is closed
GracefulStopCall ==
    /\ shutdown = "cancelled"
    /\ shutdown' = "stopping"
    /\ UNCHANGED <<cancelled, loops, closed>>
    /\ LifeFrame

\* main: grpcSrv.GracefulStop() returns, which it does when every
\* TaskStream handler has returned
GracefulStopReturn ==
    /\ shutdown = "stopping"
    /\ \A w \in WorkerIds : ~Connected(pool, w)
    /\ shutdown' = "stopped"
    /\ UNCHANGED <<cancelled, loops, closed>>
    /\ LifeFrame

\* main: the select after GracefulStop: done is closed (the goroutines of
\* the wait group returned) or the 15 s timer fires (timeout)
WaitLoops(timeout) ==
    /\ shutdown = "stopped"
    /\ ~timeout => \A l \in Starts : loops[l] = "returned"
    /\ shutdown' = "closing"
    /\ UNCHANGED <<cancelled, loops, closed>>
    /\ LifeFrame

\* natsClient.Close(); redisClient.Close(); pool.Close()
CloseOrder == <<"bus", "kv", "db">>

\* main: the next Close call
Close ==
    /\ shutdown = "closing"
    /\ Len(closed) < Len(CloseOrder)
    /\ closed' = Append(closed, CloseOrder[Len(closed) + 1])
    /\ UNCHANGED <<cancelled, loops, shutdown>>
    /\ LifeFrame

\* the six loops and Dispatcher.Start, taken step by step, and the
\* cancellation
NextLoops ==
    \/ Cancel
    \/ \E l \in FetchLoops, err \in BOOLEAN : Fetch(l, err)
    \/ \E l \in FetchLoops : FetchFailed(l)
    \/ \E l \in FetchLoops : BatchHandled(l)
    \/ \E l \in SelectLoops : SelectDone(l)
    \/ \E l \in SelectLoops : SelectWork(l)
    \/ \E l \in SelectLoops : SelectHandled(l)
    \/ DispatcherStartReturn

\* every goroutine is scheduled: Fetch returns within FetchTimeout and the
\* handlers return; a select with several ready cases picks among them at
\* random, so a ready ctx.Done() is taken in the end.  Nothing makes the
\* shutdown signal arrive
FairLoops ==
    /\ \A l \in FetchLoops :
          /\ WF_vars(\E err \in BOOLEAN : Fetch(l, err))
          /\ WF_vars(FetchFailed(l))
          /\ WF_vars(BatchHandled(l))
    /\ \A l \in SelectLoops : SF_vars(SelectDone(l)) /\ WF_vars(SelectHandled(l))
    /\ WF_vars(DispatcherStartReturn)

\* the process after start, with an agent that passes the gate
InitLife ==
    /\ Init
    /\ agent = "ok"

SpecLoops == InitLife /\ [][NextLoops]_vars /\ FairLoops

\* a loop, or Dispatcher.Start, taken as one step: it returns once the
\* context is cancelled, Dispatcher.Start once its three loops have
LoopReturns(l) ==
    /\ cancelled
    /\ loops[l] = "running"
    /\ l = "dispatcher" => \A d \in DispatcherLoops : loops[d] = "returned"
    /\ loops' = [loops EXCEPT ![l] = "returned"]
    /\ UNCHANGED <<cancelled, shutdown, closed>>
    /\ LifeFrame

\* main from the shutdown signal on, the goroutines of its wait group and
\* the worker streams
NextLife ==
    \/ Cancel
    \/ \E l \in Starts : LoopReturns(l)
    \/ \E w \in WorkerIds, mc \in RegMaxConcurrent : StreamOpen(w, mc)
    \/ \E w \in WorkerIds : StreamEnd(w)
    \/ \E w \in WorkerIds : ReaderCleanup(w)
    \/ GracefulStopCall
    \/ GracefulStopReturn
    \/ \E timeout \in BOOLEAN : WaitLoops(timeout)
    \/ Close

\* main goes on when it can, the loops return, a stream handler whose
\* stream ended cleans up.  Nothing makes a worker end its stream
FairLife ==
    /\ \A l \in Starts : WF_vars(LoopReturns(l))
    /\ \A w \in WorkerIds : WF_vars(ReaderCleanup(w))
    /\ WF_vars(GracefulStopCall)
    /\ WF_vars(GracefulStopReturn)
    /\ WF_vars(\E timeout \in BOOLEAN : WaitLoops(timeout))
    /\ WF_vars(Close)

SpecLife == InitLife /\ [][NextLife]_vars /\ FairLife

\* C32: after the process-wide cancellation is triggered, each long-lived
\* loop (orchestrator consumer, dispatcher consume loop, result loop, timeout
\* reaper, outbound relay, audit persister) eventually returns, and
\* Dispatcher.Start returns once its three loops have returned; a fetch
\* timeout or fetch error before cancellation never ends a loop.
C32_LoopsReturnAfterCancel ==
    /\ \A l \in Loops : cancelled ~> (loops[l] = "returned")
    /\ (\A l \in DispatcherLoops : loops[l] = "returned")
          ~> (loops["dispatcher"] = "returned")
    /\ [](loops["dispatcher"] = "returned"
             => \A l \in DispatcherLoops : loops[l] = "returned")
    /\ [][\A l \in Starts :
             (loops[l] # "returned" /\ loops'[l] = "returned") => cancelled]_vars

\* every loop and Dispatcher.Start have returned, the fetch loops by both
\* of their exits
C32_Witness ==
    /\ cancelled
    /\ \A l \in Starts : loops[l] = "returned"

\* the steps of the shutdown come in the order of main: GracefulStop after
\* cancel, the wait after GracefulStop returned, the Close calls after the
\* wait and in the order bus, key-value store, database
ShutdownOrder ==
    /\ [][/\ shutdown' = "stopping" => cancelled
          /\ shutdown' = "closing" => shutdown \in {"stopped", "closing"}
          /\ closed' # closed => shutdown = "closing"]_vars
    /\ [](\E n \in 0..Len(CloseOrder) : closed = SubSeq(CloseOrder, 1, n))

\* C33: shutdown proceeds in the order cancel token, graceful stop of the
\* stream server, wait for the loops with a 15 s cap, then close bus,
\* key-value store and database, and it always reaches the closing step,
\* also when worker streams are still connected at shutdown time.
C33_ShutdownReachesClosing ==
    /\ ShutdownOrder
    /\ cancelled ~> (closed = CloseOrder)

\* -------------------------------------------------------------------
\* ------------------------------------- the receive loop of a worker stream
\* the messages a worker sends on its stream after the registration: a
\* TaskResponse (whose worker_id the worker leaves unset), or a message with
\* another payload (a second WorkerRegister)
WorkerMessages ==
    {[kind |-> "response", resp |-> [r |-> r, w |-> "", err |-> err]] :
        r \in Requests, err \in BOOLEAN}
    \cup {[kind |-> "register", resp |-> NoResp]}

\* the messages received on the stream of one worker_id that are followed
MaxRecv == 4

\* msg.GetTaskResponse(): the TaskResponse of the message, nil (NoResp) when
\* the payload is something else
GetTaskResponse(msg) == IF msg.kind = "response" THEN msg.resp ELSE NoResp

\* a channel send that puts the response before the waiting ones: a faulty
\* variant
ChanSendFront(ch, resp) == <<resp>> \o ch

\* s.resultCh <- resp on a channel with room
ChanSend(ch, resp) == Append(ch, resp)

\* receive loop: stream.Recv returns msg; a message without a TaskResponse is
\* skipped (continue), a TaskResponse is stamped with the worker_id of the
\* registration and goes to the channel send
StreamRecv(w, msg) ==
    /\ Connected(pool, w)
    /\ streams[w].up
    /\ streams[w].hand = NoResp
    /\ Len(inbox) < MaxRecv
    /\ inbox' = Append(inbox, msg)
    /\ streams' = [streams EXCEPT ![w].hand =
                     IF GetTaskResponse(msg) = NoResp
                     THEN NoResp
                     ELSE [GetTaskResponse(msg) EXCEPT !.w = w]]
    /\ UNCHANGED <<placed, gateVars, taskMeta, day>>
    /\ UNCHANGED <<limiterVars, memVars, turnVars, lifeVars>>
    /\ UNCHANGED <<acks, workerRows>>
    /\ UNCHANGED published
    /\ UNCHANGED <<agent, busUp, orch, tasks, redeliv, pool, atWorker, resultCh,
                   pending, cpc, rpc, epc, outbound, executions, audits, quota,
                   memory, sends, ins, term>>

\* receive loop: s.resultCh <- resp, which blocks while the channel is full
StreamPut(w) ==
    /\ streams[w].hand # NoResp
    /\ Len(resultCh) < ResultChCap
    /\ resultCh' = ChanSend(resultCh, streams[w].hand)
    /\ placed' = Append(placed, streams[w].hand)
    /\ streams' = [streams EXCEPT ![w].hand = NoResp]
    /\ UNCHANGED <<inbox, gateVars, taskMeta, day>>
    /\ UNCHANGED <<limiterVars, memVars, turnVars, lifeVars>>
    /\ UNCHANGED <<acks, workerRows>>
    /\ UNCHANGED published
    /\ UNCHANGED <<agent, busUp, orch, tasks, redeliv, pool, atWorker,
                   pending, cpc, rpc, epc, outbound, executions, audits, quota,
                   memory, sends, ins, term>>

\* a worker stream from its registration to its end, with a worker that
\* sends what it likes, and the result loop, which finds no pending entry
\* for what it takes
NextReader ==
    \/ \E w \in WorkerIds, mc \in RegMaxConcurrent : TaskStreamOpen(w, mc)
    \/ \E w \in WorkerIds, msg \in WorkerMessages : StreamRecv(w, msg)
    \/ \E w \in WorkerIds : StreamPut(w)
    \/ \E w \in WorkerIds : StreamEnd(w)
    \/ \E w \in WorkerIds : ReaderCleanup(w)
    \/ HandleResultTake

SpecReader == InitLife /\ [][NextReader]_vars

\* the TaskResponses among the messages l, as the receive loop of worker w
\* stamps them
Stamped(l, w) ==
    LET IsResponse(msg) == msg.kind = "response"
        rs == SelectSeq(l, IsResponse)
    IN  [i \in 1..Len(rs) |-> [rs[i].resp EXCEPT !.w = w]]

\* the response the receive loop of w holds, as a sequence
InHand(w) == IF streams[w].hand = NoResp THEN <<>> ELSE <<streams[w].hand>>

\* C34: the TaskResponses received on one registered worker stream are
\* placed on the result channel in the order they were received, each
\* exactly once; when the channel is full the stream reader blocks rather
\* than dropping a response, and messages that are not TaskResponses are
\* ignored without affecting later ones.
C34_ResponsesPlacedInOrder ==
    /\ [](\A w \in WorkerIds :
            /\ Stamped(inbox, w) = placed \o InHand(w)
            /\ \E n \in 0..Len(placed) :
                  resultCh = SubSeq(placed, n + 1, Len(placed)))
    /\ [][\A w \in WorkerIds :
            (streams[w].hand # NoResp /\ Len(resultCh) = ResultChCap)
               => (streams'[w].hand = streams[w].hand /\ placed' = placed)]_vars

\* the receive loop waits with a response on a full channel, after a
\* message that was not a TaskResponse
C34_Witness ==
    /\ streams["w1"].hand # NoResp
    /\ Len(resultCh) = ResultChCap
    /\ \E i \in 1..Len(inbox) : inbox[i].kind = "register"
    /\ placed # <<>>

\* -------------------------------------------------------------------
\* ------------------------------ long-term memories of a TaskResponse
\* the memory policies an agent's memory_config may give
MemoryPolicies ==
    {[Enabled |-> e, ShortTermEnabled |-> TRUE, LongTermEnabled |-> l] :
        e \in BOOLEAN, l \in BOOLEAN}

\* resp.NewMemories: what a worker may return, none or one memory, whose
\* metadata_json may name any owner and agent
NewMemories ==
    {<<>>} \cup
    {<<[Embedding |-> "e1", MetadataJson |-> [owner_user_id |-> o, agent_id |-> a]]>> :
        o \in MemoryOwners, a \in MemoryAgents}

\* a memory.Memory that takes owner and agent from what the worker sent: a
\* faulty variant
ResultMemoryOfWorker(pt, mem) ==
    [OwnerUserID |-> mem.MetadataJson.owner_user_id,
     AgentID |-> mem.MetadataJson.agent_id,
     Embedding |-> mem.Embedding, Metadata |-> mem.MetadataJson]

\* the memory.Memory handleResult builds from the pending entry pt and a
\* memory of the response
ResultMemory(pt, mem) ==
    [OwnerUserID |-> pt.OwnerUserID, AgentID |-> pt.AgentID,
     Embedding |-> mem.Embedding, Metadata |-> mem.MetadataJson]

\* PostgresRepository.Create: the table with the row of m
Create(rows, m) ==
    rows \cup {[id |-> Cardinality(rows) + 1, owner_user_id |-> m.OwnerUserID,
                agent_id |-> m.AgentID, embedding |-> m.Embedding,
                metadata |-> m.Metadata]}

\* the rows after StoreLongTermMemory of the memories mems(i..), for the
\* pending entry pt
RECURSIVE StoreLongTerm(_, _, _, _)
StoreLongTerm(rows, pt, mems, i) ==
    IF i > Len(mems)
    THEN rows
    ELSE StoreLongTerm(Create(rows, ResultMemory(pt, mems[i])), pt, mems, i + 1)

\* handleResult after the critical section, for a response that carries the
\* memories mems: the long-term rows are written when the response is
\* completed and the entry's policy has memory and long-term memory enabled
HandleResultStore(mems) ==
    /\ ResultHandled(Len(mems))
    /\ ltm' = IF /\ taskMeta[rpc.r].MemoryConfig.Enabled
                 /\ Status(rpc.err) = "completed"
                 /\ taskMeta[rpc.r].MemoryConfig.LongTermEnabled
              THEN StoreLongTerm(ltm, taskMeta[rpc.r], mems, 1)
              ELSE ltm
    /\ UNCHANGED <<search, rings, appended, stmOp, shortTermMax>>
    /\ UNCHANGED limiterVars
    /\ UNCHANGED sideVars

\* two messages to agent a1 of owner o1, whose memory policy at the dispatch
\* of each is any
InitPersist ==
    /\ InitDispatcher
    /\ agent = "ok"
    /\ pool = [w \in WorkerIds |-> NoWorker]
    /\ shortTermMax = DefaultMaxShortTermMsgs
    /\ quota = [row |-> TRUE, tokens_used_today |-> 0, requests_today |-> 0,
                violations |-> <<>>]
    /\ taskMeta \in [Requests -> {[DefaultMeta EXCEPT !.MemoryConfig = c] :
                                     c \in MemoryPolicies}]
    /\ agentRow = DefaultAgentRow

\* the pipeline from the inbound message to the handled response, with
\* responses that carry memories
NextPersist ==
    \/ \E m \in Requests : ProcessMessage(m)
    \/ \E w \in WorkerIds, mc \in RegMaxConcurrent : Register(w, mc)
    \/ \E r \in Requests : HandleTaskDispatch(r)
    \/ HandleTaskTrack
    \/ \E t \in atWorker, err \in BOOLEAN : WorkerRespond(t, err)
    \/ HandleResultTake
    \/ \E mems \in NewMemories : HandleResultStore(mems)

SpecPersist == InitPersist /\ [][NextPersist]_vars

\* C35: every long-term memory row persisted from a TaskResponse carries the
\* owner_id and agent_id of the pending entry matched by the response's
\* request_id, never values supplied by the worker, and rows are persisted
\* only when the response is completed and the pending entry's memory policy
\* has memory and long-term memory enabled.
C35_RowsCarryPendingEntryIds ==
    [][\A row \in ltm' \ ltm :
          /\ rpc.st = "matched"
          /\ row.owner_user_id = taskMeta[rpc.r].OwnerUserID
          /\ row.agent_id = taskMeta[rpc.r].AgentID
          /\ ~rpc.err
          /\ taskMeta[rpc.r].MemoryConfig.Enabled
          /\ taskMeta[rpc.r].MemoryConfig.LongTermEnabled]_vars

\* a row has been persisted from a response whose memory names another
\* owner and another agent, and the response of the other request, whose
\* policy has long-term memory off, has been handled without a row
C35_Witness ==
    /\ \E row \in ltm :
          /\ row.metadata.owner_user_id # row.owner_user_id
          /\ row.metadata.agent_id # row.agent_id
    /\ Cardinality(ltm) = 1
    /\ \A r \in Requests : term[r] # <<>> /\ term[r][1].res = 1
    /\ \E r \in Requests : ~taskMeta[r].MemoryConfig.LongTermEnabled
    /\ memory.longterm = 1

\* -------------------------------------------------------------------
\* ------------------------------------ handleTask: the agent and its gate
\* the strings a row may hold as profile.system_prompt: the output of
\* hex.EncodeToString has 56 characters or more and any hex digit first
StoredPrompts ==
    {[of |-> "", first |-> "", long |-> FALSE]}
    \cup {[of |-> "plain", first |-> f, long |-> l] : f \in {"0", "Y"}, l \in BOOLEAN}
    \cup {[of |-> k, first |-> f, long |-> TRUE] :
             k \in {"cipher", "foreign"}, f \in {"0", "a"}}

\* the provider names of the LLM configs and of the allowed_providers lists
Providers == {"", "p1", "P1", "p2"}

\* llm_config of a row: empty, not an object, or an object whose provider
\* field is "" when it is absent
LLMConfigs ==
    {[kind |-> "empty", provider |-> ""], [kind |-> "invalid", provider |-> ""]}
    \cup {[kind |-> "object", provider |-> p] : p \in Providers}

\* governance.allowed_providers of a row
AllowedLists == {<<>>, <<"p1">>, <<"P1">>, <<"p2", "p1">>}

\* the rows an agent may have
AgentRows ==
    {[Profile |-> [Encrypted |-> e, SystemPrompt |-> sp], LLMConfig |-> l,
      AllowedProviders |-> al] :
        e \in BOOLEAN, sp \in StoredPrompts, l \in LLMConfigs, al \in AllowedLists}

\* deliveries of one task message that are followed
MaxDeliveries == 2

\* Encryptor.Decrypt: hex decoding and gcm.Open succeed on the output of
\* Encrypt under the key of the process only
Decrypt(sp) ==
    IF sp.of = "cipher"
    THEN [err |-> FALSE, text |-> PlainPrompt]
    ELSE [err |-> TRUE, text |-> sp]

\* Service.rowToAgent: the error it returns and the system prompt of the
\* Agent it builds
rowToAgent(row) ==
    LET sp == row.Profile.SystemPrompt
    IN  IF row.Profile.Encrypted /\ sp.of # ""
        THEN IF Decrypt(sp).err
             THEN IF sp.first # "0" \/ ~sp.long
                  THEN [err |-> FALSE, SystemPrompt |-> sp]
                  ELSE [err |-> TRUE, SystemPrompt |-> sp]
             ELSE [err |-> FALSE, SystemPrompt |-> Decrypt(sp).text]
        ELSE [err |-> FALSE, SystemPrompt |-> sp]

\* extractProvider: "" for an empty config, for one that does not parse and
\* for one without provider
extractProvider(llmConfig) ==
    IF llmConfig.kind = "object" THEN llmConfig.provider ELSE ""

\* Unicode case folding on the provider names
Fold(str) ==
    CASE str = "P1" -> "p1"
      [] OTHER -> str

\* strings.EqualFold
EqualFold(a, b) == Fold(a) = Fold(b)

\* providerAllowed
providerAllowed(provider, allowed) ==
    \E i \in 1..Len(allowed) : EqualFold(allowed[i], provider)

\* handleTask, the allowed-providers check: whether it rejects the task
ProviderDenied(row) ==
    /\ Len(row.AllowedProviders) > 0
    /\ extractProvider(row.LLMConfig) # ""
    /\ ~providerAllowed(extractProvider(row.LLMConfig), row.AllowedProviders)

\* the error texts of the gate
ProviderErrorText(provider) ==
    <<"LLM provider '", provider, "' not allowed by governance policy">>

\* handleTask on a delivery of task message r, up to worker.IncrementActive,
\* with the agent's row read as it is stored
HandleTaskAgent(r) ==
    /\ cpc.st = "idle"
    /\ tasks[r] \in {"ready", "nocap"}
    /\ delivered[r] < MaxDeliveries
    /\ delivered' = [delivered EXCEPT ![r] = @ + 1]
    /\ IF agent = "deleted"
       THEN \* agent == nil: error reply, Ack
            /\ outbound' = PublishOutboundMessage(outbound,
                              DispErrorResponse(TaskMessage(r), "Agent not found"))
            /\ tasks' = [tasks EXCEPT ![r] = "acked"]
            /\ UNCHANGED <<cpc, pool, atWorker, sends, requests>>
       ELSE IF rowToAgent(agentRow).err
       THEN \* GetByID returns the error of rowToAgent: Nak
            UNCHANGED <<tasks, cpc, outbound, pool, atWorker, sends, requests>>
       ELSE IF agent = "blocked"
       THEN /\ outbound' = PublishOutboundMessage(outbound,
                              DispErrorResponse(TaskMessage(r),
                                  "Agent is blocked by governance policy"))
            /\ tasks' = [tasks EXCEPT ![r] = "acked"]
            /\ UNCHANGED <<cpc, pool, atWorker, sends, requests>>
       ELSE IF ProviderDenied(agentRow)
       THEN /\ outbound' = PublishOutboundMessage(outbound,
                              DispErrorResponse(TaskMessage(r),
                                  ProviderErrorText(extractProvider(agentRow.LLMConfig))))
            /\ tasks' = [tasks EXCEPT ![r] = "acked"]
            /\ UNCHANGED <<cpc, pool, atWorker, sends, requests>>
       ELSE IF SelectWorker(pool) = {}
       THEN \* no worker with capacity: Nak
            /\ tasks' = [tasks EXCEPT ![r] = "nocap"]
            /\ UNCHANGED <<cpc, outbound, pool, atWorker, sends, requests>>
       ELSE \/ \* Send returns an error: Nak
               UNCHANGED <<tasks, cpc, outbound, pool, atWorker, sends, requests>>
            \/ \* the TaskRequest is sent
               /\ \E w \in SelectWorker(pool) :
                     /\ atWorker' = atWorker \cup
                           {[r |-> r, w |-> w, n |-> sends[r] + 1]}
                     /\ requests' = requests \cup
                           {[RequestId |-> r, WorkerID |-> w,
                             SystemPrompt |-> rowToAgent(agentRow).SystemPrompt]}
                     /\ pool' = IncrementActive(pool, w)
                     /\ cpc' = [st |-> "sent", r |-> r, w |-> w, live |-> TRUE,
                                nocap |-> (tasks[r] = "nocap")]
               /\ sends' = [sends EXCEPT ![r] = @ + 1]
               /\ tasks' = [tasks EXCEPT ![r] = "inflight"]
               /\ UNCHANGED outbound
    /\ UNCHANGED <<agentRow, readVars, taskMeta, day>>
    /\ UNCHANGED <<limiterVars, memVars, turnVars, lifeVars>>
    /\ UNCHANGED streamVars
    /\ UNCHANGED published
    /\ UNCHANGED <<agent, busUp, orch, redeliv, resultCh,
                   pending, rpc, epc, executions, audits, quota,
                   memory, ins, term>>

\* an agent that exists, is blocked or is soft-deleted, with any row
InitGate ==
    /\ InitDispatcher
    /\ agent \in {"ok", "blocked", "deleted"}
    /\ pool = [w \in WorkerIds |-> NoWorker]
    /\ shortTermMax = DefaultMaxShortTermMsgs
    /\ quota = [row |-> TRUE, tokens_used_today |-> 0, requests_today |-> 0,
                violations |-> <<>>]
    /\ taskMeta = [m \in Requests |-> DefaultMeta]
    /\ agentRow \in AgentRows

\* the pipeline from the inbound message to the tracked dispatch
NextGate ==
    \/ \E m \in Requests : ProcessMessage(m)
    \/ \E w \in WorkerIds, mc \in RegMaxConcurrent : Register(w, mc)
    \/ \E r \in Requests : HandleTaskAgent(r)
    \/ HandleTaskTrack

SpecGate == InitGate /\ [][NextGate]_vars

\* Decrypt is called on the stored system prompt and fails
DecryptFails(row) ==
    /\ row.Profile.Encrypted
    /\ row.Profile.SystemPrompt.of # ""
    /\ Decrypt(row.Profile.SystemPrompt).err

\* handleTask has handled a delivery of r in this step
DeliveryHandled(r) == delivered'[r] = delivered[r] + 1

\* the step has published an error reply to r and the delivery is Acked
ErrorReplied(r) ==
    /\ tasks'[r] = "acked"
    /\ \E msg \in BagToSet(outbound') :
          /\ msg.InReplyTo = r
          /\ msg.Body[1] = "Error: "
          /\ CopiesIn(msg, outbound') = CopiesIn(msg, outbound) + 1

\* C36: if the stored system prompt of an agent cannot be decrypted at
\* dispatch time, the dispatch is reported to the user as an error outbound
\* message and the task message is not redelivered indefinitely; in no case
\* is a TaskRequest sent whose system_prompt is the stored ciphertext.
C36_DecryptFailureReported ==
    /\ [][\A r \in Requests :
             (DeliveryHandled(r) /\ agent = "ok" /\ DecryptFails(agentRow))
                => ErrorReplied(r)]_vars
    /\ [](\A q \in requests :
             ~(/\ agentRow.Profile.Encrypted
               /\ agentRow.Profile.SystemPrompt.of \in {"cipher", "foreign"}
               /\ q.SystemPrompt = agentRow.Profile.SystemPrompt))

\* C37: when an agent's governance sets a non-empty allowed_providers list
\* and the provider configured in the agent's LLM config is not in that list
\* (compared case-insensitively; this covers an LLM config with no or an
\* empty provider), the dispatcher publishes an error outbound, Acks the
\* task, selects no worker and sends no TaskRequest.
C37_ProviderOutsideListRejected ==
    [][\A r \in Requests :
          (/\ DeliveryHandled(r)
           /\ agent = "ok"
           /\ ~rowToAgent(agentRow).err
           /\ Len(agentRow.AllowedProviders) > 0
           /\ ~providerAllowed(extractProvider(agentRow.LLMConfig),
                               agentRow.AllowedProviders))
             => (/\ ErrorReplied(r)
                 /\ pool' = pool
                 /\ requests' = requests
                 /\ atWorker' = atWorker)]_vars

\* -------------------------------------------------------------------
\* ------------------------------------------------- the daily counters
\* 24 h have passed since last_daily_reset, and since the reset a call that
\* resets first would have made
DayPasses ==
    /\ ~day.stale \/ ~day.ideal.stale
    /\ day' = [stale |-> TRUE, ideal |-> [day.ideal EXCEPT !.stale = TRUE]]
    /\ UNCHANGED quota
    /\ UNCHANGED <<limiterVars, memVars, turnVars, lifeVars, readVars, gateVars,
                   taskMeta>>
    /\ UNCHANGED streamVars
    /\ UNCHANGED published
    /\ UNCHANGED <<agent, busUp, orch, tasks, redeliv, pool, atWorker, resultCh,
                   pending, cpc, rpc, epc, outbound, executions, audits,
                   memory, sends, ins, term>>

\* the caller of CheckQuota that is followed
DayCaller == "c1"

\* the quota engine over several days, for an owner with a row: CheckQuota
\* by one caller, GetQuota and DeductTokens in any order
NextDaily ==
    \/ DayPasses
    \/ \E tokens \in DeductAmounts : QuotaDeduct(tokens)
    \/ GetQuota
    \/ \E redisOK \in BOOLEAN : CheckQuotaCount(DayCaller, redisOK)
    \/ \E redisOK \in BOOLEAN : CheckQuotaAdd(DayCaller, redisOK)
    \/ \E dbOK \in BOOLEAN : CheckQuotaDaily(DayCaller, dbOK)

SpecDaily == InitLife /\ [][NextDaily]_vars

\* C38: the lazy daily reset runs before every read and before every
\* increment of the daily counters: after any sequence of CheckQuota,
\* GetQuota and DeductTokens calls, tokens_today and requests_today equal the
\* totals deducted since the most recent reset, so usage deducted once
\* last_daily_reset is older than 24 h is neither added to the previous
\* day's counters nor erased by a later reset.
C38_LazyResetBeforeEveryCall ==
    /\ quota.tokens_used_today = day.ideal.tokens
    /\ quota.requests_today = day.ideal.requests

\* -------------------------------------------------------------------
\* ------------------------------------------- two workers, one dispatcher
\* the worker_ids of two workers, and the max_concurrent they register with
CrossWorkers == {"w1", "w2"}
CrossMaxConcurrent == 2

\* the TaskResponses a worker may send: one for any request_id, whether the
\* request was sent to it or not
CrossMessages ==
    {[kind |-> "response", resp |-> [r |-> r, w |-> "", err |-> FALSE]] :
        r \in Requests}

\* two worker_ids without a stream, an agent that passes the gate
InitCross ==
    /\ InitCore
    /\ agent = "ok"
    /\ streams = [w \in CrossWorkers |-> NoStream]
    /\ acks = [w \in CrossWorkers |-> "none"]
    /\ workerRows = [w \in CrossWorkers |-> "none"]
    /\ pool = [w \in CrossWorkers |-> NoWorker]
    /\ shortTermMax = DefaultMaxShortTermMsgs
    /\ quota = [row |-> TRUE, tokens_used_today |-> 0, requests_today |-> 0,
                violations |-> <<>>]
    /\ taskMeta = [m \in Requests |-> DefaultMeta]
    /\ agentRow = DefaultAgentRow

\* the pipeline with two connected workers whose streams carry what the
\* workers send
NextCross ==
    \/ \E m \in Requests : ProcessMessage(m)
    \/ \E w \in CrossWorkers : Register(w, CrossMaxConcurrent)
    \/ \E r \in Requests : HandleTaskDispatch(r)
    \/ HandleTaskTrack
    \/ \E w \in CrossWorkers, msg \in CrossMessages : StreamRecv(w, msg)
    \/ \E w \in CrossWorkers : StreamPut(w)
    \/ HandleResultTake
    \/ HandleResultFinish

SpecCross == InitCross /\ [][NextCross]_vars

\* C39: when a TaskResponse is matched to a pending entry, the worker whose
\* active_tasks is decremented is the worker the request was dispatched to
\* (the worker_id recorded in the pending entry), whichever connected
\* worker's stream the response arrived on.
C39_DecrementsDispatchedWorker ==
    [][(rpc.st = "matched" /\ rpc'.st = "idle")
          => pool' = DecrementActive(pool, rpc.w)]_vars

\* -------------------------------------------------------------------
\* C40: when a worker disconnects with tasks in flight and a new stream
\* later registers under the same worker_id, the new connection starts with
\* active_tasks = 0 and its counter is changed only by tasks dispatched to
\* the new connection: a response or timeout of a task dispatched to the
\* earlier connection never decrements it, so its active_tasks always equals
\* the number of pending entries dispatched to it.
C40_NewConnectionCountsOwnTasks ==
    [][/\ \A w \in WorkerIds :
             (~Connected(pool, w) /\ Connected(pool', w)) => pool'[w].active = 0
       /\ (rpc.st = "matched" /\ rpc'.st = "idle" /\ ~rpc.live) => pool' = pool
       /\ \A pt \in epc.exp : (ReapStep(pt) /\ ~pt.live) => pool' = pool]_vars

====
